---- MODULE Spec2Model ----
(***************************************************************************)
(* Consensus message handlers of the node: the Validation and the          *)
(* Ratification handler, each with its own vote aggregator, sharing one    *)
(* step-votes registry.                                                    *)
(*                                                                         *)
(* The handlers are translated from                                        *)
(*   src/consensus/src/validation/handler.rs                               *)
(*   src/consensus/src/ratification/handler.rs                             *)
(* Rusk, the chain's handle on the commits of the VM, is translated from   *)
(*   src/rusk/src/lib/chain/rusk.rs                                        *)
(* The check of a candidate's failed iterations is translated from         *)
(*   src/node/src/chain/header_validation.rs                               *)
(* The aggregator (crate::aggregator), the registry (crate::step_votes_reg)*)
(* the vote verifier (crate::quorum::verifiers) and the step encoding      *)
(* (IterCounter) are not among the source files; they are modelled from    *)
(* spec.md sections 4.1, 4.2, 4.5 and 4.6.                                 *)
(***************************************************************************)
EXTENDS Integers, FiniteSets, Sequences, TLC

\* ------------------------------------------------------------------ bounds

\* Committee members are 1..NumMembers; signer 0 is the iteration's generator,
\* which is excluded from the committee.
NumMembers == 2

\* Iterations of the round are 0..MaxIter.
MaxIter == 1

\* Number of verify / collect / collect_from_past / handle_timeout calls in one
\* behaviour.
MaxCalls == 3

\* Iterations whose steps are encoded in the step-encoding checks are
\* 0..MaxStepIteration: 84 is the last iteration whose three steps fit in a
\* u8, 85 the first whose steps do not.
MaxStepIteration == 85

\* An epoch is EPOCH blocks long (stake_contract_types::EPOCH, scaled down).
EPOCH == 2

\* Block heights passed to Rusk are 1..MaxHeight.
MaxHeight == 4

\* Number of commits the VM creates in one behaviour.
MaxCommits == 4

\* execute_transactions is given up to MaxTxs transactions, each spending
\* 1..MaxGas gas.
MaxTxs == 3
MaxGas == 3

\* ------------------------------------------------------- committee (sec. 3)

Members == 1..NumMembers
Generator == 0
Signers == {Generator} \cup Members
Iterations == 0..MaxIter
\* Candidate block hashes; EmptyHash is the hash of "no candidate".
Hashes == {"h1"}
EmptyHash == "empty"
\* The block hashes a Ratification or Quorum header carries.
BlockHashes == Hashes \cup {EmptyHash}
\* The hash of a vote that is for no block.
NoHash == "none"

\* Voting weight of a committee member (sortition is external: the member 1
\* holds two credits, every other member one).
Weight(m) == IF m = 1 THEN 2 ELSE 1

RECURSIVE SumWeight(_)
SumWeight(S) ==
    IF S = {} THEN 0
    ELSE LET m == CHOOSE x \in S : TRUE IN Weight(m) + SumWeight(S \ {m})

\* The committee handed to collect / collect_from_past: ordered members with
\* their weights and the excluded generator.
TheCommittee ==
    [members |-> Members, excluded |-> Generator, total_weight |-> SumWeight(Members)]

\* threshold = ceil(2/3 * total_weight)
QuorumThreshold(committee) == (2 * committee.total_weight + 2) \div 3

\* --------------------------------------------------- step encoding (4.6)

Proposal == 0
Validation == 1
Ratification == 2

\* step_from_name wrapping two steps short of a u8.
StepFromNameMod254(iteration, kind) == (iteration * 3 + kind) % 254

\* iteration.step_from_name(kind), a u8
StepFromName(iteration, kind) == (iteration * 3 + kind) % 256

\* The largest u8, the type of a step.
U8Max == 255

\* IterCounter::from_step(step)
FromStep(step) == step \div 3

StepKinds == {Proposal, Validation, Ratification}

\* The three steps of the iteration fit in a u8.
StepsFitU8(iteration) == iteration * 3 + Ratification <= U8Max

\* ------------------------------------------------------------------ votes

Valid(h) == [kind |-> "Valid", hash |-> h]
Invalid(h) == [kind |-> "Invalid", hash |-> h]
NoCandidate == [kind |-> "NoCandidate", hash |-> EmptyHash]
NoQuorum == [kind |-> "NoQuorum", hash |-> EmptyHash]

\* The votes carried by the Validation messages of the model.
ValidationVotes == {Valid("h1"), Invalid("h1"), NoCandidate, NoQuorum}

\* A Validation message: header.iteration, vote, sign_info.signer, and whether
\* sign_info.signature verifies under the signer's key.
ValidationMsgs ==
    [iteration : Iterations, vote : ValidationVotes, signer : Signers,
     sig_ok : {TRUE}]
    \cup
    [iteration : Iterations, vote : {Valid("h1")}, signer : {1}, sig_ok : {FALSE}]

\* Validation::get_step
GetStep(p) == StepFromName(p.iteration, Validation)

\* StepVotes: the committee bitset and the aggregate signature.  The aggregate
\* signature is the set of members whose signatures were added and the
\* (step, vote key) they signed.
StepVotes(bitset, signers, step, key) ==
    [bitset |-> bitset, aggregate_signature |->
        [signers |-> signers, step |-> step, key |-> key]]

\* ------------------------------------------------------------- messages

EmptyMsg == [payload |-> "Empty"]
\* A message of a topic neither handler accepts.
OtherMsg == [payload |-> "Quorum"]

ValidationPayloads ==
    {[payload |-> "Validation", iteration |-> p.iteration, vote |-> p.vote,
      signer |-> p.signer, sig_ok |-> p.sig_ok] : p \in ValidationMsgs}

\* The messages handed to the Validation handler.
ValidationInbox == ValidationPayloads \cup {EmptyMsg, OtherMsg}

\* Results
OkUnit == [tag |-> "Ok"]
Err(e) == [tag |-> "Err", error |-> e]
ErrArg(e, a) == [tag |-> "Err", error |-> e, arg |-> a]
Pending == [tag |-> "Pending"]
PendingMsg(m) == [tag |-> "Pending", msg |-> m]
Ready(m) == [tag |-> "Ready", msg |-> m]
None == [tag |-> "None"]

\* ------------------------------------------------------ Aggregator (4.1)

\* An aggregator maps a key <<step, vote key>> to a bucket; a key without
\* votes has no entry.
EmptyBucket == [bitset |-> {}, weight |-> 0, quorum |-> FALSE]
Bucket(a, k) == IF k \in DOMAIN a THEN a[k] ELSE EmptyBucket

\* is_vote_collected(signer, vote, step)
IsVoteCollected(a, signer, key, step) == signer \in Bucket(a, <<step, key>>).bitset

\* collect_vote reporting the quorum on every call at or above the threshold.
CollectVoteUnlatched(a, committee, signer, sig_ok, key, step) ==
    LET k == <<step, key>>
        b == Bucket(a, k)
    IN  IF signer \notin committee.members
          THEN [ok |-> FALSE, error |-> "NotCommitteeMember", aggr |-> a]
        ELSE IF signer \in b.bitset
          THEN [ok |-> FALSE, error |-> "DuplicatedVote", aggr |-> a]
        ELSE IF ~sig_ok
          THEN [ok |-> FALSE, error |-> "InvalidSignature", aggr |-> a]
        ELSE
          LET w == b.weight + Weight(signer)
              reached == w >= QuorumThreshold(committee)
              nb == [bitset |-> b.bitset \cup {signer}, weight |-> w,
                     quorum |-> b.quorum \/ reached]
          IN  [ok |-> TRUE, aggr |-> (k :> nb) @@ a,
               sv |-> StepVotes(nb.bitset, nb.bitset, step, key),
               quorum_reached |-> reached]

\* collect_vote adding the weight of a signer whose vote the bucket holds.
CollectVoteRecount(a, committee, signer, sig_ok, key, step) ==
    LET k == <<step, key>>
        b == Bucket(a, k)
    IN  IF signer \notin committee.members
          THEN [ok |-> FALSE, error |-> "NotCommitteeMember", aggr |-> a]
        ELSE IF ~sig_ok
          THEN [ok |-> FALSE, error |-> "InvalidSignature", aggr |-> a]
        ELSE
          LET w == b.weight + Weight(signer)
              reached == w >= QuorumThreshold(committee)
              nb == [bitset |-> b.bitset \cup {signer}, weight |-> w,
                     quorum |-> b.quorum \/ reached]
          IN  [ok |-> TRUE, aggr |-> (k :> nb) @@ a,
               sv |-> StepVotes(nb.bitset, nb.bitset, step, key),
               quorum_reached |-> reached /\ ~b.quorum]

\* collect_vote(committee, sign_info, vote, step): the new aggregator, the
\* running StepVotes and quorum_reached, true the first time the accumulated
\* weight reaches the threshold; an error leaves the aggregator as it was.
CollectVote(a, committee, signer, sig_ok, key, step) ==
    LET k == <<step, key>>
        b == Bucket(a, k)
    IN  IF signer \notin committee.members
          THEN [ok |-> FALSE, error |-> "NotCommitteeMember", aggr |-> a]
        ELSE IF signer \in b.bitset
          THEN [ok |-> FALSE, error |-> "DuplicatedVote", aggr |-> a]
        ELSE IF ~sig_ok
          THEN [ok |-> FALSE, error |-> "InvalidSignature", aggr |-> a]
        ELSE
          LET w == b.weight + Weight(signer)
              reached == w >= QuorumThreshold(committee)
              nb == [bitset |-> b.bitset \cup {signer}, weight |-> w,
                     quorum |-> b.quorum \/ reached]
          IN  [ok |-> TRUE, aggr |-> (k :> nb) @@ a,
               sv |-> StepVotes(nb.bitset, nb.bitset, step, key),
               quorum_reached |-> reached /\ ~b.quorum]

\* ------------------------------------------- Step-votes registry (4.2)

\* The registry keeps, per iteration and vote key, the last StepVotes of the
\* validation and of the ratification step with a latched quorum flag, and
\* the (iteration, block_hash) pairs whose Quorum message it has emitted.
EmptyRegistry == [validation |-> <<>>, ratification |-> <<>>, emitted |-> {}]
EmptySlot == [sv |-> None, quorum |-> FALSE]
Slot(f, k) == IF k \in DOMAIN f THEN f[k] ELSE EmptySlot

\* The block hash a validation vote is a vote for: Valid(h) is for h,
\* NoCandidate for the empty hash; Invalid(h) is a vote against h, and
\* NoQuorum is for nothing.
BlockHashOf(vote) ==
    CASE vote.kind = "Valid" -> vote.hash
      [] vote.kind = "NoCandidate" -> EmptyHash
      [] OTHER -> NoHash

\* The validation votes with a quorum for (iteration, hash).
ValidationQuorums(reg, iteration, hash) ==
    {k \in DOMAIN reg.validation :
        /\ k[1] = iteration
        /\ BlockHashOf(k[2]) = hash
        /\ reg.validation[k].quorum}

HasValidationQuorum(reg, iteration, hash) ==
    ValidationQuorums(reg, iteration, hash) # {}

HasRatificationQuorum(reg, iteration, hash) ==
    Slot(reg.ratification, <<iteration, hash>>).quorum

\* The RoundUpdate of the round the handlers and the registry serve.
RoundUpdate == [round |-> 1]

\* The Quorum message: header (round, step, block_hash) and both StepVotes.
QuorumMsg(step, hash, validation, ratification) ==
    [payload |-> "Quorum", round |-> RoundUpdate.round, step |-> step,
     block_hash |-> hash, validation |-> validation,
     ratification |-> ratification]

\* Storing with the quorum flag overwritten by the call's quorum_reached.
StoreStepVotesUnlatched(reg, iteration, key, sv, kind, quorum_reached) ==
    LET k == <<iteration, key>>
    IN  IF kind = Validation
          THEN [reg EXCEPT !.validation =
                  (k :> [sv |-> sv, quorum |-> quorum_reached]) @@ @]
          ELSE [reg EXCEPT !.ratification =
                  (k :> [sv |-> sv, quorum |-> quorum_reached]) @@ @]

\* The slots after storing sv under (iteration, step kind, key).
StoreStepVotes(reg, iteration, key, sv, kind, quorum_reached) ==
    LET k == <<iteration, key>>
    IN  IF kind = Validation
          THEN [reg EXCEPT !.validation =
                  (k :> [sv |-> sv,
                         quorum |-> Slot(reg.validation, k).quorum \/ quorum_reached]) @@ @]
          ELSE [reg EXCEPT !.ratification =
                  (k :> [sv |-> sv,
                         quorum |-> Slot(reg.ratification, k).quorum \/ quorum_reached]) @@ @]

\* A registry that keeps no record of its emissions.
AlreadyEmittedForgotten(reg, iteration, hash) == FALSE

\* Whether the pair's Quorum message has been emitted already.
AlreadyEmitted(reg, iteration, hash) == <<iteration, hash>> \in reg.emitted

\* add_step_votes(iteration, vote, sv, step kind, quorum_reached, generator)
\* returns the registry after the call and the Quorum message, if any.
AddStepVotes(reg, iteration, key, sv, kind, quorum_reached, generator) ==
    LET stored == StoreStepVotes(reg, iteration, key, sv, kind, quorum_reached)
        hash == IF kind = Validation THEN BlockHashOf(key) ELSE key
        vqs == ValidationQuorums(stored, iteration, hash)
        ready == /\ vqs # {}
                 /\ HasRatificationQuorum(stored, iteration, hash)
                 /\ ~AlreadyEmitted(reg, iteration, hash)
        vkey == IF kind = Validation /\ <<iteration, key>> \in vqs
                  THEN <<iteration, key>>
                  ELSE CHOOSE k \in vqs : TRUE
    IN  IF ready
          THEN [reg |-> [stored EXCEPT !.emitted = @ \cup {<<iteration, hash>>}],
                msg |-> QuorumMsg(StepFromName(iteration, Ratification), hash,
                                  stored.validation[vkey].sv,
                                  stored.ratification[<<iteration, hash>>].sv)]
          ELSE [reg |-> stored, msg |-> None]

\* ------------------------------------- ValidationResult verification (4.5)

\* A set of committee members whose weight reaches the threshold.
QuorumSet == Members \ {NumMembers}

EmptySv == StepVotes({}, {}, 0, NoQuorum)

\* ValidationResult::default()
DefaultValidationResult == [quorum |-> "NoQuorum", hash |-> EmptyHash, sv |-> EmptySv]

\* StepVotes of a validation quorum of the iteration for a vote.
GoodSv(iteration, vote) ==
    StepVotes(QuorumSet, QuorumSet, StepFromName(iteration, Validation), vote)

\* The results of a validation step that reached a quorum: {quorum, hash, sv}.
AcceptedResults(iteration) ==
    {[quorum |-> "ValidQuorum", hash |-> h, sv |-> GoodSv(iteration, Valid(h))] :
        h \in Hashes}
    \cup
    {[quorum |-> "NilQuorum", hash |-> EmptyHash, sv |-> GoodSv(iteration, NoCandidate)]}

\* The ValidationResults embedded in the Ratification messages of an
\* iteration.
ValidationResults(iteration) ==
    AcceptedResults(iteration)
    \cup
    {[quorum |-> "NoQuorum", hash |-> EmptyHash, sv |-> EmptySv],
     [quorum |-> "InvalidQuorum", hash |-> "h1", sv |-> GoodSv(iteration, Invalid("h1"))],
     \* signers below the threshold
     [quorum |-> "ValidQuorum", hash |-> "h1",
      sv |-> StepVotes({NumMembers}, {NumMembers},
                       StepFromName(iteration, Validation), Valid("h1"))],
     \* a bit for a member that is not in the validation committee
     [quorum |-> "ValidQuorum", hash |-> "h1",
      sv |-> StepVotes(QuorumSet \cup {Generator}, QuorumSet \cup {Generator},
                       StepFromName(iteration, Validation), Valid("h1"))],
     \* an aggregate signature of other signers than the bitset says
     [quorum |-> "ValidQuorum", hash |-> "h1",
      sv |-> StepVotes(QuorumSet, Members,
                       StepFromName(iteration, Validation), Valid("h1"))],
     \* an aggregate signature over the validation step of another iteration
     [quorum |-> "ValidQuorum", hash |-> "h1",
      sv |-> StepVotes(QuorumSet, QuorumSet,
                       StepFromName(iteration + 1, Validation), Valid("h1"))]}

RatificationSteps == {StepFromName(i, Ratification) : i \in Iterations}

\* A Ratification message: header.step, header.block_hash, header.pubkey_bls
\* (the signer), whether the signature verifies, and the ValidationResult.
RatificationPayloads ==
    UNION {
        [payload : {"Ratification"}, step : {step}, block_hash : BlockHashes,
         signer : Signers, sig_ok : {TRUE},
         validation_result : AcceptedResults(FromStep(step))]
        \cup
        [payload : {"Ratification"}, step : {step}, block_hash : {"h1"},
         signer : {1}, sig_ok : {TRUE},
         validation_result : ValidationResults(FromStep(step))]
        \cup
        [payload : {"Ratification"}, step : {step}, block_hash : {"h1"},
         signer : {1}, sig_ok : {FALSE},
         validation_result : AcceptedResults(FromStep(step))
                                 \cup {DefaultValidationResult}]
        : step \in RatificationSteps}

\* The messages handed to the Ratification handler.
RatificationInbox == RatificationPayloads \cup {EmptyMsg, OtherMsg}

\* round_committees as passed to verify: whether it knows the generator and
\* the validation committee of the iteration.
RoundCommittees ==
    {[generator |-> TRUE, validation_committee |-> TRUE],
     [generator |-> FALSE, validation_committee |-> TRUE],
     [generator |-> TRUE, validation_committee |-> FALSE]}

\* The round committees of a node that knows the iteration.
KnownCommittees == [generator |-> TRUE, validation_committee |-> TRUE]

\* verify_votes(hash, bitset, agg_sig, committee, cfg, enable_quorum_check):
\* (a) the signers are read off the bitset and the committee, (b) their
\* weight reaches the threshold, (c) the aggregate signature is the signers'
\* over (cfg.step, hash).
VerifyVotes(hash, sv, committee, cfg_step, enable_quorum_check) ==
    IF ~(sv.bitset \subseteq committee.members) THEN "InvalidType"
    ELSE IF enable_quorum_check /\ SumWeight(sv.bitset) < QuorumThreshold(committee)
      THEN "VoteSetTooSmall"
    ELSE IF \/ sv.aggregate_signature.signers # sv.bitset
            \/ sv.aggregate_signature.step # cfg_step
            \/ BlockHashOf(sv.aggregate_signature.key) # hash
      THEN "VerificationFailed"
    ELSE "Ok"

\* The commit the state id file names when the node is first started.
GenesisCommit == 0

\* ------------------------------------------------------------------ state

VARIABLES
    aggr,            \* ValidationHandler.aggr
    candidate,       \* ValidationHandler.candidate
    curr_iteration,  \* ValidationHandler.curr_iteration
    aggregator,      \* RatificationHandler.aggregator
    validation_result, \* RatificationHandler.validation_result
    curr_step,       \* RatificationHandler.curr_step
    sv_registry,     \* the registry both handlers share
    out,             \* the last call: operation, arguments, result, registry call
    quorum_out,      \* history: Quorum messages returned as Ready, per pair
    reg_out,         \* history: Quorum messages returned by add_step_votes
    quorum_signals,  \* history: quorum_reached = true returns, per bucket
    results_out,     \* history: ValidationResults returned since the last reset
    tip,             \* Rusk.tip: current, base and epoch commit
    vm,              \* Rusk.vm: the commits it holds, and how many it created
    dir,             \* Rusk.dir: the state id file and the epoch id file
    commits_to_delete, \* commits handed to spawned delete_commits tasks
    n_calls          \* number of handler calls so far

vars == <<aggr, candidate, curr_iteration, aggregator, validation_result,
          curr_step, sv_registry, out, quorum_out, reg_out, quorum_signals,
          results_out, tip, vm, dir, commits_to_delete,
          n_calls>>

\* The state of Rusk, and the state of the consensus handlers with their
\* history.
RuskState == <<tip, vm, dir, commits_to_delete>>
ConsensusState ==
    <<aggr, candidate, curr_iteration, aggregator, validation_result, curr_step,
      sv_registry, quorum_out, reg_out, quorum_signals, results_out, n_calls>>

Pairs == Iterations \X BlockHashes

\* ------------------------------------------------- effects of one call

NoRegCall == [called |-> FALSE]

\* The record of one add_step_votes call: its arguments, the block hash the
\* vote is for, what it returned and whether the pair's Quorum had been
\* emitted before the call.
RegCall(reg, iteration, key, sv, kind, quorum_reached, generator, r) ==
    LET hash == IF kind = Validation THEN BlockHashOf(key) ELSE key IN
    [called |-> TRUE, iteration |-> iteration, key |-> key, sv |-> sv,
     hash |-> hash, kind |-> kind, quorum_reached |-> quorum_reached,
     generator |-> generator, ret |-> r.msg,
     emitted_before |-> AlreadyEmitted(reg, iteration, hash)]

\* A call that returns ret and changes nothing.
NoEffect(a, reg, ret) ==
    [ret |-> ret, aggr |-> a, reg |-> reg, reg_call |-> NoRegCall,
     signal |-> None]

\* quorum_reached = true was returned for the bucket k.
Signal(k) == [tag |-> "Signal", key |-> k]

\* -------------------------------------------------- ValidationHandler

\* final_result(sv, vote, quorum)
final_result(sv, vote, quorum) ==
    Ready([payload |-> "ValidationResult", sv |-> sv, vote |-> vote,
           quorum |-> quorum])

\* reset leaving the candidate of the iteration before in place.
ValidationResetKeepsCandidate(iteration) ==
    [candidate |-> candidate, curr_iteration |-> iteration]

\* ValidationHandler::reset: the fields it assigns.
ValidationReset(iteration) ==
    [candidate |-> None, curr_iteration |-> iteration]

\* ValidationHandler::unwrap_msg
ValidationUnwrapOk(msg) == msg.payload = "Validation"

\* verify rejecting a message of another iteration than the handler's.
ValidationVerifyIteration(msg) ==
    IF msg.payload = "Validation" THEN
        IF msg.iteration # curr_iteration
          THEN ErrArg("InvalidMsgIteration", msg.iteration)
        ELSE IF IsVoteCollected(aggr, msg.signer, msg.vote, GetStep(msg))
          THEN Err("VoteAlreadyCollected")
        ELSE IF ~msg.sig_ok THEN Err("InvalidSignature")
        ELSE OkUnit
    ELSE IF msg.payload = "Empty" THEN OkUnit
    ELSE Err("InvalidMsgType")

\* verify without the check for a vote collected already.
ValidationVerifyNoDuplicateCheck(msg) ==
    IF msg.payload = "Validation" THEN
        IF ~msg.sig_ok THEN Err("InvalidSignature")
        ELSE OkUnit
    ELSE IF msg.payload = "Empty" THEN OkUnit
    ELSE Err("InvalidMsgType")

\* verify checking the signature before the duplicate.
ValidationVerifySignatureFirst(msg) ==
    IF msg.payload = "Validation" THEN
        IF ~msg.sig_ok THEN Err("InvalidSignature")
        ELSE IF IsVoteCollected(aggr, msg.signer, msg.vote, GetStep(msg))
          THEN Err("VoteAlreadyCollected")
        ELSE OkUnit
    ELSE IF msg.payload = "Empty" THEN OkUnit
    ELSE Err("InvalidMsgType")

\* ValidationHandler::verify
ValidationVerify(msg) ==
    IF msg.payload = "Validation" THEN
        IF IsVoteCollected(aggr, msg.signer, msg.vote, GetStep(msg))
          THEN Err("VoteAlreadyCollected")
        ELSE IF ~msg.sig_ok THEN Err("InvalidSignature")
        ELSE OkUnit
    ELSE IF msg.payload = "Empty" THEN OkUnit
    ELSE Err("InvalidMsgType")

\* The match with the quorum type of an Invalid vote taken for Valid.
QuorumTypeOfInvalidAsValid(vote) ==
    CASE vote.kind = "NoCandidate" -> "NoCandidate"
      [] vote.kind = "Invalid" -> "Valid"
      [] vote.kind = "Valid" -> "Valid"
      [] vote.kind = "NoQuorum" -> "Error"

\* The quorum type of a vote (the match in collect).
QuorumTypeOf(vote) ==
    CASE vote.kind = "NoCandidate" -> "NoCandidate"
      [] vote.kind = "Invalid" -> "Invalid"
      [] vote.kind = "Valid" -> "Valid"
      [] vote.kind = "NoQuorum" -> "Error"

\* What collect returns after the vote was aggregated and recorded.
ValidationCollectOutput(sv, vote, quorum_reached) ==
    IF quorum_reached
      THEN IF QuorumTypeOf(vote) = "Error"
             THEN ErrArg("InvalidVote", vote)
             ELSE final_result(sv, vote, QuorumTypeOf(vote))
      ELSE Pending

\* collect without the check of the message's iteration.
ValidationCollectAnyIteration(msg, committee) ==
    IF ~ValidationUnwrapOk(msg)
      THEN NoEffect(aggr, sv_registry, Err("InvalidMsgType"))
    ELSE IF msg.vote = NoQuorum
      THEN NoEffect(aggr, sv_registry, ErrArg("InvalidVote", msg.vote))
    ELSE
      LET cv == CollectVote(aggr, committee, msg.signer, msg.sig_ok, msg.vote,
                            GetStep(msg))
      IN  IF ~cv.ok
            THEN NoEffect(aggr, sv_registry, ErrArg("InvalidVote", msg.vote))
            ELSE
              LET r == AddStepVotes(sv_registry, msg.iteration, msg.vote, cv.sv,
                                    Validation, cv.quorum_reached, committee.excluded)
              IN  [ret |-> ValidationCollectOutput(cv.sv, msg.vote, cv.quorum_reached),
                   aggr |-> cv.aggr,
                   reg |-> r.reg,
                   reg_call |-> RegCall(sv_registry, msg.iteration, msg.vote, cv.sv,
                                        Validation, cv.quorum_reached,
                                        committee.excluded, r),
                   signal |-> IF cv.quorum_reached
                                THEN Signal(<<GetStep(msg), msg.vote>>) ELSE None]

\* collect without the early rejection of a NoQuorum vote: the vote reaches
\* the aggregator and the match on the vote rejects it after a quorum.
ValidationCollectNoQuorumAggregated(msg, committee) ==
    IF ~ValidationUnwrapOk(msg)
      THEN NoEffect(aggr, sv_registry, Err("InvalidMsgType"))
    ELSE IF msg.iteration # curr_iteration
      THEN NoEffect(aggr, sv_registry, ErrArg("InvalidMsgIteration", msg.iteration))
    ELSE
      LET cv == CollectVote(aggr, committee, msg.signer, msg.sig_ok, msg.vote,
                            GetStep(msg))
      IN  IF ~cv.ok
            THEN NoEffect(aggr, sv_registry, ErrArg("InvalidVote", msg.vote))
            ELSE
              LET r == AddStepVotes(sv_registry, msg.iteration, msg.vote, cv.sv,
                                    Validation, cv.quorum_reached, committee.excluded)
              IN  [ret |-> ValidationCollectOutput(cv.sv, msg.vote, cv.quorum_reached),
                   aggr |-> cv.aggr,
                   reg |-> r.reg,
                   reg_call |-> RegCall(sv_registry, msg.iteration, msg.vote, cv.sv,
                                        Validation, cv.quorum_reached,
                                        committee.excluded, r),
                   signal |-> IF cv.quorum_reached
                                THEN Signal(<<GetStep(msg), msg.vote>>) ELSE None]

\* collect recording into the registry only the votes that reach the quorum.
ValidationCollectRecordsQuorumOnly(msg, committee) ==
    IF ~ValidationUnwrapOk(msg)
      THEN NoEffect(aggr, sv_registry, Err("InvalidMsgType"))
    ELSE IF msg.vote = NoQuorum
      THEN NoEffect(aggr, sv_registry, ErrArg("InvalidVote", msg.vote))
    ELSE IF msg.iteration # curr_iteration
      THEN NoEffect(aggr, sv_registry, ErrArg("InvalidMsgIteration", msg.iteration))
    ELSE
      LET cv == CollectVote(aggr, committee, msg.signer, msg.sig_ok, msg.vote,
                            GetStep(msg))
      IN  IF ~cv.ok
            THEN NoEffect(aggr, sv_registry, ErrArg("InvalidVote", msg.vote))
          ELSE IF ~cv.quorum_reached
            THEN [ret |-> Pending, aggr |-> cv.aggr, reg |-> sv_registry,
                  reg_call |-> NoRegCall, signal |-> None]
            ELSE
              LET r == AddStepVotes(sv_registry, msg.iteration, msg.vote, cv.sv,
                                    Validation, cv.quorum_reached, committee.excluded)
              IN  [ret |-> ValidationCollectOutput(cv.sv, msg.vote, cv.quorum_reached),
                   aggr |-> cv.aggr,
                   reg |-> r.reg,
                   reg_call |-> RegCall(sv_registry, msg.iteration, msg.vote, cv.sv,
                                        Validation, cv.quorum_reached,
                                        committee.excluded, r),
                   signal |-> Signal(<<GetStep(msg), msg.vote>>)]

\* collect aggregating every vote for a block under the key of the Valid vote
\* for it.
ValidationCollectByHash(msg, committee) ==
    IF ~ValidationUnwrapOk(msg)
      THEN NoEffect(aggr, sv_registry, Err("InvalidMsgType"))
    ELSE IF msg.vote = NoQuorum
      THEN NoEffect(aggr, sv_registry, ErrArg("InvalidVote", msg.vote))
    ELSE IF msg.iteration # curr_iteration
      THEN NoEffect(aggr, sv_registry, ErrArg("InvalidMsgIteration", msg.iteration))
    ELSE
      LET cv == CollectVote(aggr, committee, msg.signer, msg.sig_ok,
                            Valid(msg.vote.hash), GetStep(msg))
      IN  IF ~cv.ok
            THEN NoEffect(aggr, sv_registry, ErrArg("InvalidVote", msg.vote))
            ELSE
              LET r == AddStepVotes(sv_registry, msg.iteration, msg.vote, cv.sv,
                                    Validation, cv.quorum_reached, committee.excluded)
              IN  [ret |-> ValidationCollectOutput(cv.sv, msg.vote, cv.quorum_reached),
                   aggr |-> cv.aggr,
                   reg |-> r.reg,
                   reg_call |-> RegCall(sv_registry, msg.iteration, msg.vote, cv.sv,
                                        Validation, cv.quorum_reached,
                                        committee.excluded, r),
                   signal |-> IF cv.quorum_reached
                                THEN Signal(<<GetStep(msg), Valid(msg.vote.hash)>>)
                                ELSE None]

\* collect taking an error of collect_vote as collect_from_past does: logged,
\* and the call returns Pending.
ValidationCollectErrorPending(msg, committee) ==
    IF ~ValidationUnwrapOk(msg)
      THEN NoEffect(aggr, sv_registry, Err("InvalidMsgType"))
    ELSE IF msg.vote = NoQuorum
      THEN NoEffect(aggr, sv_registry, ErrArg("InvalidVote", msg.vote))
    ELSE IF msg.iteration # curr_iteration
      THEN NoEffect(aggr, sv_registry, ErrArg("InvalidMsgIteration", msg.iteration))
    ELSE
      LET cv == CollectVote(aggr, committee, msg.signer, msg.sig_ok, msg.vote,
                            GetStep(msg))
      IN  IF ~cv.ok
            THEN NoEffect(aggr, sv_registry, Pending)
            ELSE
              LET r == AddStepVotes(sv_registry, msg.iteration, msg.vote, cv.sv,
                                    Validation, cv.quorum_reached, committee.excluded)
              IN  [ret |-> ValidationCollectOutput(cv.sv, msg.vote, cv.quorum_reached),
                   aggr |-> cv.aggr,
                   reg |-> r.reg,
                   reg_call |-> RegCall(sv_registry, msg.iteration, msg.vote, cv.sv,
                                        Validation, cv.quorum_reached,
                                        committee.excluded, r),
                   signal |-> IF cv.quorum_reached
                                THEN Signal(<<GetStep(msg), msg.vote>>) ELSE None]

\* ValidationHandler::collect
ValidationCollect(msg, committee) ==
    IF ~ValidationUnwrapOk(msg)
      THEN NoEffect(aggr, sv_registry, Err("InvalidMsgType"))
    ELSE IF msg.vote = NoQuorum
      THEN NoEffect(aggr, sv_registry, ErrArg("InvalidVote", msg.vote))
    ELSE IF msg.iteration # curr_iteration
      THEN NoEffect(aggr, sv_registry, ErrArg("InvalidMsgIteration", msg.iteration))
    ELSE
      LET cv == CollectVote(aggr, committee, msg.signer, msg.sig_ok, msg.vote,
                            GetStep(msg))
      IN  IF ~cv.ok
            THEN NoEffect(aggr, sv_registry, ErrArg("InvalidVote", msg.vote))
            ELSE
              LET r == AddStepVotes(sv_registry, msg.iteration, msg.vote, cv.sv,
                                    Validation, cv.quorum_reached, committee.excluded)
              IN  [ret |-> ValidationCollectOutput(cv.sv, msg.vote, cv.quorum_reached),
                   aggr |-> cv.aggr,
                   reg |-> r.reg,
                   reg_call |-> RegCall(sv_registry, msg.iteration, msg.vote, cv.sv,
                                        Validation, cv.quorum_reached,
                                        committee.excluded, r),
                   signal |-> IF cv.quorum_reached
                                THEN Signal(<<GetStep(msg), msg.vote>>) ELSE None]

\* collect_from_past aggregating into the bucket of the handler's iteration.
ValidationCollectFromPastCurrent(msg, committee) ==
    IF ~ValidationUnwrapOk(msg)
      THEN NoEffect(aggr, sv_registry, Err("InvalidMsgType"))
    ELSE IF msg.vote = NoQuorum
      THEN NoEffect(aggr, sv_registry, ErrArg("InvalidVote", msg.vote))
    ELSE
      LET step == StepFromName(curr_iteration, Validation)
          cv == CollectVote(aggr, committee, msg.signer, msg.sig_ok, msg.vote, step)
      IN  IF ~cv.ok
            THEN NoEffect(aggr, sv_registry, Pending)
            ELSE
              LET r == AddStepVotes(sv_registry, msg.iteration, msg.vote, cv.sv,
                                    Validation, cv.quorum_reached, committee.excluded)
              IN  [ret |-> IF r.msg # None THEN Ready(r.msg) ELSE Pending,
                   aggr |-> cv.aggr,
                   reg |-> r.reg,
                   reg_call |-> RegCall(sv_registry, msg.iteration, msg.vote, cv.sv,
                                        Validation, cv.quorum_reached,
                                        committee.excluded, r),
                   signal |-> IF cv.quorum_reached
                                THEN Signal(<<step, msg.vote>>) ELSE None]

\* collect_from_past dropping what add_step_votes returns, as collect does.
ValidationCollectFromPastDiscard(msg, committee) ==
    IF ~ValidationUnwrapOk(msg)
      THEN NoEffect(aggr, sv_registry, Err("InvalidMsgType"))
    ELSE IF msg.vote = NoQuorum
      THEN NoEffect(aggr, sv_registry, ErrArg("InvalidVote", msg.vote))
    ELSE
      LET cv == CollectVote(aggr, committee, msg.signer, msg.sig_ok, msg.vote,
                            GetStep(msg))
      IN  IF ~cv.ok
            THEN NoEffect(aggr, sv_registry, Pending)
            ELSE
              LET r == AddStepVotes(sv_registry, msg.iteration, msg.vote, cv.sv,
                                    Validation, cv.quorum_reached, committee.excluded)
              IN  [ret |-> Pending,
                   aggr |-> cv.aggr,
                   reg |-> r.reg,
                   reg_call |-> RegCall(sv_registry, msg.iteration, msg.vote, cv.sv,
                                        Validation, cv.quorum_reached,
                                        committee.excluded, r),
                   signal |-> IF cv.quorum_reached
                                THEN Signal(<<GetStep(msg), msg.vote>>) ELSE None]

\* collect_from_past returning the ValidationResult of a quorum, as collect
\* does, when the registry returns no Quorum message.
ValidationCollectFromPastResult(msg, committee) ==
    IF ~ValidationUnwrapOk(msg)
      THEN NoEffect(aggr, sv_registry, Err("InvalidMsgType"))
    ELSE IF msg.vote = NoQuorum
      THEN NoEffect(aggr, sv_registry, ErrArg("InvalidVote", msg.vote))
    ELSE
      LET cv == CollectVote(aggr, committee, msg.signer, msg.sig_ok, msg.vote,
                            GetStep(msg))
      IN  IF ~cv.ok
            THEN NoEffect(aggr, sv_registry, Pending)
            ELSE
              LET r == AddStepVotes(sv_registry, msg.iteration, msg.vote, cv.sv,
                                    Validation, cv.quorum_reached, committee.excluded)
              IN  [ret |-> IF r.msg # None THEN Ready(r.msg)
                           ELSE ValidationCollectOutput(cv.sv, msg.vote,
                                                        cv.quorum_reached),
                   aggr |-> cv.aggr,
                   reg |-> r.reg,
                   reg_call |-> RegCall(sv_registry, msg.iteration, msg.vote, cv.sv,
                                        Validation, cv.quorum_reached,
                                        committee.excluded, r),
                   signal |-> IF cv.quorum_reached
                                THEN Signal(<<GetStep(msg), msg.vote>>) ELSE None]

\* ValidationHandler::collect_from_past
ValidationCollectFromPast(msg, committee) ==
    IF ~ValidationUnwrapOk(msg)
      THEN NoEffect(aggr, sv_registry, Err("InvalidMsgType"))
    ELSE IF msg.vote = NoQuorum
      THEN NoEffect(aggr, sv_registry, ErrArg("InvalidVote", msg.vote))
    ELSE
      LET cv == CollectVote(aggr, committee, msg.signer, msg.sig_ok, msg.vote,
                            GetStep(msg))
      IN  IF ~cv.ok
            THEN NoEffect(aggr, sv_registry, Pending)
            ELSE
              LET r == AddStepVotes(sv_registry, msg.iteration, msg.vote, cv.sv,
                                    Validation, cv.quorum_reached, committee.excluded)
              IN  [ret |-> IF r.msg # None THEN Ready(r.msg) ELSE Pending,
                   aggr |-> cv.aggr,
                   reg |-> r.reg,
                   reg_call |-> RegCall(sv_registry, msg.iteration, msg.vote, cv.sv,
                                        Validation, cv.quorum_reached,
                                        committee.excluded, r),
                   signal |-> IF cv.quorum_reached
                                THEN Signal(<<GetStep(msg), msg.vote>>) ELSE None]

\* handle_timeout yielding the empty message only while no vote is collected.
ValidationHandleTimeoutIdle == IF aggr = <<>> THEN Ready(EmptyMsg) ELSE Pending

\* ValidationHandler::handle_timeout
ValidationHandleTimeout == Ready(EmptyMsg)

\* ------------------------------------------------ RatificationHandler

\* RatificationHandler::unwrap_msg
RatificationUnwrapOk(msg) == msg.payload = "Ratification"

\* verify_validation_result going on without the iteration's generator.
VerifyValidationResultNoGenerator(step, round_committees, result) ==
    IF result.quorum \in {"ValidQuorum", "NilQuorum"} THEN
        LET iter == FromStep(step) IN
        IF round_committees.validation_committee THEN
            IF VerifyVotes(result.hash, result.sv, TheCommittee,
                           StepFromName(iter, Validation), TRUE) = "Ok"
              THEN OkUnit
              ELSE Err("InvalidValidation")
        ELSE Err("InvalidValidation")
    ELSE Err("InvalidValidation")

\* RatificationHandler::verify_validation_result
VerifyValidationResult(step, round_committees, result) ==
    IF result.quorum \in {"ValidQuorum", "NilQuorum"} THEN
        LET iter == FromStep(step) IN
        IF round_committees.generator THEN
            IF round_committees.validation_committee THEN
                IF VerifyVotes(result.hash, result.sv, TheCommittee,
                               StepFromName(iter, Validation), TRUE) = "Ok"
                  THEN OkUnit
                  ELSE Err("InvalidValidation")
            ELSE Err("InvalidValidation")
        ELSE Err("InvalidValidation")
    ELSE Err("InvalidValidation")

\* verify checking the embedded ValidationResult before the header signature.
RatificationVerifyResultFirst(msg, step, round_committees) ==
    IF msg.payload = "Ratification" THEN
        IF VerifyValidationResult(step, round_committees, msg.validation_result)
               # OkUnit
          THEN Err("InvalidValidation")
        ELSE IF ~msg.sig_ok THEN Err("InvalidSignature")
        ELSE OkUnit
    ELSE Err("InvalidMsgType")

\* RatificationHandler::verify
RatificationVerify(msg, step, round_committees) ==
    IF msg.payload = "Ratification" THEN
        IF ~msg.sig_ok THEN Err("InvalidSignature")
        ELSE VerifyValidationResult(step, round_committees, msg.validation_result)
    ELSE Err("InvalidMsgType")

\* RatificationHandler::reset: the fields it assigns.
RatificationReset(step) ==
    [validation_result |-> DefaultValidationResult, curr_step |-> step]

\* RatificationHandler::build_quorum_msg
build_quorum_msg(ru, step, block_hash, validation, ratification) ==
    [payload |-> "Quorum", round |-> ru.round, step |-> step,
     block_hash |-> block_hash, validation |-> validation,
     ratification |-> ratification]

\* collect bundling the validation StepVotes of the handler's own
\* validation_result instead of the message's.
RatificationCollectOutputStored(msg, step, block_hash, ratification_sv, quorum_reached) ==
    IF quorum_reached
      THEN Ready(build_quorum_msg(RoundUpdate, step, block_hash,
                                  validation_result.sv, ratification_sv))
      ELSE PendingMsg(msg)

\* What collect returns after the vote was aggregated and recorded.
RatificationCollectOutput(msg, step, block_hash, ratification_sv, quorum_reached) ==
    IF quorum_reached
      THEN Ready(build_quorum_msg(RoundUpdate, step, block_hash,
                                  msg.validation_result.sv, ratification_sv))
      ELSE PendingMsg(msg)

\* collect aggregating a vote of any step.
RatificationCollectAnyStep(msg, step, committee) ==
    IF ~RatificationUnwrapOk(msg)
      THEN NoEffect(aggregator, sv_registry, Err("InvalidMsgType"))
    ELSE
      LET cv == CollectVote(aggregator, committee, msg.signer, msg.sig_ok,
                            msg.block_hash, msg.step)
      IN  IF ~cv.ok
            THEN NoEffect(aggregator, sv_registry, PendingMsg(msg))
            ELSE
              LET r == AddStepVotes(sv_registry, FromStep(step), msg.block_hash,
                                    cv.sv, Ratification, cv.quorum_reached,
                                    committee.excluded)
              IN  [ret |-> RatificationCollectOutput(msg, step, msg.block_hash,
                                                     cv.sv, cv.quorum_reached),
                   aggr |-> cv.aggr,
                   reg |-> r.reg,
                   reg_call |-> RegCall(sv_registry, FromStep(step), msg.block_hash,
                                        cv.sv, Ratification, cv.quorum_reached,
                                        committee.excluded, r),
                   signal |-> IF cv.quorum_reached
                                THEN Signal(<<msg.step, msg.block_hash>>) ELSE None]

\* RatificationHandler::collect
RatificationCollect(msg, step, committee) ==
    IF step # curr_step
      THEN NoEffect(aggregator, sv_registry, PendingMsg(msg))
    ELSE IF ~RatificationUnwrapOk(msg)
      THEN NoEffect(aggregator, sv_registry, Err("InvalidMsgType"))
    ELSE
      LET cv == CollectVote(aggregator, committee, msg.signer, msg.sig_ok,
                            msg.block_hash, msg.step)
      IN  IF ~cv.ok
            THEN NoEffect(aggregator, sv_registry, PendingMsg(msg))
            ELSE
              LET r == AddStepVotes(sv_registry, FromStep(step), msg.block_hash,
                                    cv.sv, Ratification, cv.quorum_reached,
                                    committee.excluded)
              IN  [ret |-> RatificationCollectOutput(msg, step, msg.block_hash,
                                                     cv.sv, cv.quorum_reached),
                   aggr |-> cv.aggr,
                   reg |-> r.reg,
                   reg_call |-> RegCall(sv_registry, FromStep(step), msg.block_hash,
                                        cv.sv, Ratification, cv.quorum_reached,
                                        committee.excluded, r),
                   signal |-> IF cv.quorum_reached
                                THEN Signal(<<msg.step, msg.block_hash>>) ELSE None]

\* collect_from_past building its own Quorum message when the aggregator
\* reports a quorum, as collect does.
RatificationCollectFromPastBuilds(msg, step, committee) ==
    IF ~RatificationUnwrapOk(msg)
      THEN NoEffect(aggregator, sv_registry, Err("InvalidMsgType"))
    ELSE
      LET cv == CollectVote(aggregator, committee, msg.signer, msg.sig_ok,
                            msg.block_hash, msg.step)
      IN  IF ~cv.ok
            THEN NoEffect(aggregator, sv_registry, PendingMsg(msg))
            ELSE
              LET r == AddStepVotes(sv_registry, FromStep(step), msg.block_hash,
                                    cv.sv, Ratification, cv.quorum_reached,
                                    committee.excluded)
              IN  [ret |-> RatificationCollectOutput(msg, step, msg.block_hash,
                                                     cv.sv, cv.quorum_reached),
                   aggr |-> cv.aggr,
                   reg |-> r.reg,
                   reg_call |-> RegCall(sv_registry, FromStep(step), msg.block_hash,
                                        cv.sv, Ratification, cv.quorum_reached,
                                        committee.excluded, r),
                   signal |-> IF cv.quorum_reached
                                THEN Signal(<<msg.step, msg.block_hash>>) ELSE None]

\* RatificationHandler::collect_from_past
RatificationCollectFromPast(msg, step, committee) ==
    IF ~RatificationUnwrapOk(msg)
      THEN NoEffect(aggregator, sv_registry, Err("InvalidMsgType"))
    ELSE
      LET cv == CollectVote(aggregator, committee, msg.signer, msg.sig_ok,
                            msg.block_hash, msg.step)
      IN  IF ~cv.ok
            THEN NoEffect(aggregator, sv_registry, PendingMsg(msg))
            ELSE
              LET r == AddStepVotes(sv_registry, FromStep(step), msg.block_hash,
                                    cv.sv, Ratification, cv.quorum_reached,
                                    committee.excluded)
              IN  [ret |-> IF r.msg # None THEN Ready(r.msg) ELSE PendingMsg(msg),
                   aggr |-> cv.aggr,
                   reg |-> r.reg,
                   reg_call |-> RegCall(sv_registry, FromStep(step), msg.block_hash,
                                        cv.sv, Ratification, cv.quorum_reached,
                                        committee.excluded, r),
                   signal |-> IF cv.quorum_reached
                                THEN Signal(<<msg.step, msg.block_hash>>) ELSE None]

\* RatificationHandler::handle_timeout
RatificationHandleTimeout == Ready(EmptyMsg)

\* ------------------------------------------------------ round driver

\* The step the driver passes with a message: the step of its header; a
\* message without one comes with the handler's current step.
StepOf(msg) == IF msg.payload = "Ratification" THEN msg.step ELSE curr_step

\* The driver hands a message to collect / collect_from_past after verify
\* accepted it; of what verify checks, the signature and the embedded
\* ValidationResult do not change while the message waits.
ValidationDeliverable(msg) ==
    \/ msg.payload = "Empty"
    \/ msg.payload = "Validation" /\ msg.sig_ok

RatificationDeliverable(msg) ==
    /\ msg.payload = "Ratification"
    /\ RatificationVerify(msg, msg.step, KnownCommittees) = OkUnit

\* The (message, round committees) pairs verify is called with: every message
\* of the inbox at a node that knows the iteration's committees, and the
\* messages of member 1 at a node that misses one of them.
RatificationVerifyInputs ==
    (RatificationInbox \X {KnownCommittees})
    \cup
    ({msg \in RatificationPayloads :
         /\ msg.signer = 1 /\ msg.sig_ok /\ msg.block_hash = "h1"
         /\ msg.validation_result \in AcceptedResults(FromStep(msg.step))}
     \X RoundCommittees)

\* The messages the driver hands to collect / collect_from_past.
ValidationDelivered == {msg \in ValidationInbox : ValidationDeliverable(msg)}
RatificationDelivered == {msg \in RatificationInbox : RatificationDeliverable(msg)}

\* ------------------------------------------------------------ history

Count(f, k) == IF k \in DOMAIN f THEN f[k] ELSE 0
Bump(f, k) == (k :> (IF Count(f, k) >= 2 THEN 2 ELSE Count(f, k) + 1)) @@ f

IsQuorumOutput(ret) == ret.tag = "Ready" /\ ret.msg.payload = "Quorum"

\* A candidate block, named by its hash.
Candidate(hash) == [tag |-> "Block", hash |-> hash]

\* A ValidationResult returned as Ready by ValidationHandler::collect.
IsValidationResultOutput(op, ret) ==
    /\ op = "validation.collect"
    /\ ret.tag = "Ready"
    /\ ret.msg.payload = "ValidationResult"

\* The (iteration, block_hash) a Quorum message is about.
PairOf(quorum_msg) == <<FromStep(quorum_msg.step), quorum_msg.block_hash>>

\* The history after a collect / collect_from_past call with effects e.
Record(op, args, e) ==
    /\ out' = [op |-> op, args |-> args, ret |-> e.ret, reg_call |-> e.reg_call]
    /\ sv_registry' = e.reg
    /\ quorum_out' = IF IsQuorumOutput(e.ret)
                       THEN Bump(quorum_out, PairOf(e.ret.msg)) ELSE quorum_out
    /\ reg_out' = IF e.reg_call.called /\ e.reg_call.ret # None
                    THEN Bump(reg_out, <<e.reg_call.iteration, e.reg_call.hash>>)
                    ELSE reg_out
    /\ results_out' = IF IsValidationResultOutput(op, e.ret)
                         THEN results_out + 1 ELSE results_out
    /\ n_calls' = n_calls + 1
    /\ UNCHANGED <<candidate, validation_result>>
    /\ UNCHANGED RuskState

\* The history after a call that only returns a result.
Return(op, args, ret) ==
    /\ n_calls' = n_calls + 1
    /\ out' = [op |-> op, args |-> args, ret |-> ret, reg_call |-> NoRegCall]
    /\ UNCHANGED <<candidate, validation_result, sv_registry, quorum_out,
                   reg_out, quorum_signals, results_out>>
    /\ UNCHANGED RuskState

\* ------------------------------------------------------------ actions

Init ==
    /\ aggr = <<>>
    /\ candidate = None
    /\ curr_iteration = 0
    /\ aggregator = <<>>
    /\ validation_result = DefaultValidationResult
    /\ curr_step = 0
    /\ sv_registry = EmptyRegistry
    /\ out = [op |-> "new", args |-> <<>>, ret |-> OkUnit, reg_call |-> NoRegCall]
    /\ quorum_out = <<>>
    /\ reg_out = <<>>
    /\ quorum_signals = [validation |-> <<>>, ratification |-> <<>>]
    /\ results_out = 0
    /\ n_calls = 0
    /\ tip = [current |-> GenesisCommit, base |-> GenesisCommit, epoch |-> None]
    /\ vm = [commits |-> {GenesisCommit}, created |-> 0]
    /\ dir = [state_id |-> GenesisCommit, epoch_id |-> None]
    /\ commits_to_delete = {}

VVerify(msg) ==
    /\ n_calls < MaxCalls
    /\ Return("validation.verify", <<msg>>, ValidationVerify(msg))
    /\ UNCHANGED <<aggr, curr_iteration, aggregator, curr_step>>

VCollect(msg) ==
    /\ n_calls < MaxCalls
    /\ LET e == ValidationCollect(msg, TheCommittee) IN
        /\ aggr' = e.aggr
        /\ quorum_signals' = IF e.signal = None THEN quorum_signals
             ELSE [quorum_signals EXCEPT !.validation = Bump(@, e.signal.key)]
        /\ Record("validation.collect", <<msg>>, e)
    /\ UNCHANGED <<curr_iteration, aggregator, curr_step>>

\* The driver routes a message of another iteration to collect_from_past.
VCollectFromPast(msg) ==
    /\ n_calls < MaxCalls
    /\ msg.payload = "Validation" => msg.iteration # curr_iteration
    /\ LET e == ValidationCollectFromPast(msg, TheCommittee) IN
        /\ aggr' = e.aggr
        /\ quorum_signals' = IF e.signal = None THEN quorum_signals
             ELSE [quorum_signals EXCEPT !.validation = Bump(@, e.signal.key)]
        /\ Record("validation.collect_from_past", <<msg>>, e)
    /\ UNCHANGED <<curr_iteration, aggregator, curr_step>>

VHandleTimeout ==
    /\ n_calls < MaxCalls
    /\ Return("validation.handle_timeout", <<>>, ValidationHandleTimeout)
    /\ UNCHANGED <<aggr, curr_iteration, aggregator, curr_step>>

\* ValidationHandler::reset, called when the round moves to a later iteration.
VReset(iteration) ==
    /\ iteration > curr_iteration
    /\ candidate' = ValidationReset(iteration).candidate
    /\ curr_iteration' = ValidationReset(iteration).curr_iteration
    /\ out' = [op |-> "validation.reset", args |-> <<iteration>>, ret |-> OkUnit,
               reg_call |-> NoRegCall]
    /\ results_out' = 0
    /\ UNCHANGED <<aggr, aggregator, validation_result, curr_step, sv_registry,
                   quorum_out, reg_out, quorum_signals, n_calls>>
    /\ UNCHANGED RuskState

\* The driver passes the step of the message's header.
RVerify(msg, round_committees) ==
    /\ n_calls < MaxCalls
    /\ Return("ratification.verify", <<msg, StepOf(msg), round_committees>>,
              RatificationVerify(msg, StepOf(msg), round_committees))
    /\ UNCHANGED <<aggr, curr_iteration, aggregator, curr_step>>

RCollect(msg) ==
    /\ n_calls < MaxCalls
    /\ LET e == RatificationCollect(msg, msg.step, TheCommittee) IN
        /\ aggregator' = e.aggr
        /\ quorum_signals' = IF e.signal = None THEN quorum_signals
             ELSE [quorum_signals EXCEPT !.ratification = Bump(@, e.signal.key)]
        /\ Record("ratification.collect", <<msg, msg.step>>, e)
    /\ UNCHANGED <<aggr, curr_iteration, curr_step>>

\* The driver routes a message of another step to collect_from_past.
RCollectFromPast(msg) ==
    /\ n_calls < MaxCalls
    /\ msg.step # curr_step
    /\ LET e == RatificationCollectFromPast(msg, msg.step, TheCommittee) IN
        /\ aggregator' = e.aggr
        /\ quorum_signals' = IF e.signal = None THEN quorum_signals
             ELSE [quorum_signals EXCEPT !.ratification = Bump(@, e.signal.key)]
        /\ Record("ratification.collect_from_past", <<msg, msg.step>>, e)
    /\ UNCHANGED <<aggr, curr_iteration, curr_step>>

RHandleTimeout ==
    /\ n_calls < MaxCalls
    /\ Return("ratification.handle_timeout", <<>>, RatificationHandleTimeout)
    /\ UNCHANGED <<aggr, curr_iteration, aggregator, curr_step>>

\* RatificationHandler::reset, called when the round reaches a later
\* ratification step.
RReset(step) ==
    /\ step > curr_step
    /\ validation_result' = RatificationReset(step).validation_result
    /\ curr_step' = RatificationReset(step).curr_step
    /\ out' = [op |-> "ratification.reset", args |-> <<step>>, ret |-> OkUnit,
               reg_call |-> NoRegCall]
    /\ UNCHANGED <<aggr, candidate, curr_iteration, aggregator, sv_registry,
                   quorum_out, reg_out, quorum_signals, results_out, n_calls>>
    /\ UNCHANGED RuskState

Next ==
    \/ \E msg \in ValidationInbox : VVerify(msg)
    \/ \E msg \in ValidationDelivered : VCollect(msg)
    \/ \E msg \in ValidationDelivered : VCollectFromPast(msg)
    \/ VHandleTimeout
    \/ \E iteration \in Iterations : VReset(iteration)
    \/ \E input \in RatificationVerifyInputs : RVerify(input[1], input[2])
    \/ \E msg \in RatificationDelivered : RCollect(msg)
    \/ \E msg \in RatificationDelivered : RCollectFromPast(msg)
    \/ RHandleTimeout
    \/ \E step \in RatificationSteps : RReset(step)

Spec == Init /\ [][Next]_vars

\* The votes' path alone: the collect, collect_from_past and reset calls.
NextCollect ==
    \/ \E msg \in ValidationDelivered : VCollect(msg)
    \/ \E msg \in ValidationDelivered : VCollectFromPast(msg)
    \/ \E iteration \in Iterations : VReset(iteration)
    \/ \E msg \in RatificationDelivered : RCollect(msg)
    \/ \E msg \in RatificationDelivered : RCollectFromPast(msg)
    \/ \E step \in RatificationSteps : RReset(step)

SpecCollect == Init /\ [][NextCollect]_vars

\* The validation step stores the candidate block it votes on in the
\* handler's candidate field.
VSetCandidate(hash) ==
    /\ candidate' = Candidate(hash)
    /\ out' = [op |-> "validation.candidate", args |-> <<hash>>, ret |-> OkUnit,
               reg_call |-> NoRegCall]
    /\ UNCHANGED <<aggr, curr_iteration, aggregator, validation_result,
                   curr_step, sv_registry, quorum_out, reg_out, quorum_signals,
                   results_out, n_calls>>
    /\ UNCHANGED RuskState

\* The ratification step stores the result of the iteration's validation
\* step in the handler's validation_result field.
RSetValidationResult(result) ==
    /\ validation_result' = result
    /\ out' = [op |-> "ratification.validation_result", args |-> <<result>>,
               ret |-> OkUnit, reg_call |-> NoRegCall]
    /\ UNCHANGED <<aggr, candidate, curr_iteration, aggregator, curr_step,
                   sv_registry, quorum_out, reg_out, quorum_signals,
                   results_out, n_calls>>
    /\ UNCHANGED RuskState

\* Both handlers with the steps that own them: the steps fill the handlers'
\* fields, deliver the current votes and reset the handlers.
NextReset ==
    \/ \E hash \in Hashes : VSetCandidate(hash)
    \/ \E msg \in ValidationDelivered : VCollect(msg)
    \/ \E iteration \in Iterations : VReset(iteration)
    \/ \E result \in AcceptedResults(FromStep(curr_step)) :
           RSetValidationResult(result)
    \/ \E msg \in RatificationDelivered : RCollect(msg)
    \/ \E step \in RatificationSteps : RReset(step)

SpecReset == Init /\ [][NextReset]_vars

\* The step encoding alone: a step is encoded, a step is decoded, and
\* verify_validation_result derives the validation step of the iteration of
\* the step it is given.
StepFromNameCall(iteration, kind) ==
    /\ out' = [op |-> "step_from_name", args |-> <<iteration, kind>>,
               ret |-> StepFromName(iteration, kind), reg_call |-> NoRegCall]
    /\ UNCHANGED <<aggr, candidate, curr_iteration, aggregator,
                   validation_result, curr_step, sv_registry, quorum_out,
                   reg_out, quorum_signals, results_out, n_calls>>
    /\ UNCHANGED RuskState

\* from_step applied to the step the last step_from_name returned.
FromStepCall ==
    /\ out.op = "step_from_name"
    /\ out' = [op |-> "from_step", args |-> <<out.ret>>,
               ret |-> FromStep(out.ret), reg_call |-> NoRegCall]
    /\ UNCHANGED <<aggr, candidate, curr_iteration, aggregator,
                   validation_result, curr_step, sv_registry, quorum_out,
                   reg_out, quorum_signals, results_out, n_calls>>
    /\ UNCHANGED RuskState

\* verify_validation_result's `iter.step_from_name(StepName::Validation)`
\* for iter = from_step(step).
ValidationStepCall(step) ==
    /\ out' = [op |-> "validation_step", args |-> <<step>>,
               ret |-> StepFromName(FromStep(step), Validation),
               reg_call |-> NoRegCall]
    /\ UNCHANGED <<aggr, candidate, curr_iteration, aggregator,
                   validation_result, curr_step, sv_registry, quorum_out,
                   reg_out, quorum_signals, results_out, n_calls>>
    /\ UNCHANGED RuskState

NextStep ==
    \/ \E iteration \in 0..MaxStepIteration, kind \in StepKinds :
           StepFromNameCall(iteration, kind)
    \/ FromStepCall
    \/ \E step \in 0..U8Max : ValidationStepCall(step)

SpecStep == Init /\ [][NextStep]_vars

\* The Ratification handler alone.
NextRatification ==
    \/ \E input \in RatificationVerifyInputs : RVerify(input[1], input[2])
    \/ \E msg \in RatificationDelivered : RCollect(msg)
    \/ \E msg \in RatificationDelivered : RCollectFromPast(msg)
    \/ RHandleTimeout
    \/ \E step \in RatificationSteps : RReset(step)

SpecRatification == Init /\ [][NextRatification]_vars

\* ------------------------------------------- Rusk (rusk/src/lib/chain/rusk.rs)

Some(x) == [tag |-> "Some", value |-> x]
Ok(v) == [tag |-> "Ok", value |-> v]

CommitIds == 0..MaxCommits
BlockHeights == 1..MaxHeight

\* The transactions of a block, and whether every one of them executes.
Txs == [id : {"t1"}, executes : BOOLEAN]

\* The VerificationOutput accept computes: the state root of the session and
\* the hash of the events, both fixed by the commit the session is based on
\* and by the block.
VerificationOutputOf(commit, block_height, txs) ==
    [state_root |-> <<commit, block_height, txs.id>>, event_hash |-> <<txs.id>>]

\* What a caller can pass as consistency_check when accept computes vo:
\* nothing, vo, or an output with another state root or another event hash.
ConsistencyChecks(vo) ==
    {None, Some(vo),
     Some([vo EXCEPT !.state_root = <<"other">>]),
     Some([vo EXCEPT !.event_hash = <<"other">>])}

\* Rusk::session(block_height, None): a session on tip.current, which the VM
\* opens only on a commit it holds.
SessionOk(t, v) == t.current \in v.commits

\* Session::commit: the VM holds a new commit.
SessionCommit(v) ==
    [commit |-> v.created + 1,
     vm |-> [commits |-> v.commits \cup {v.created + 1},
             created |-> v.created + 1]]

IsEpochBlock(block_height) == block_height % EPOCH = 0

\* set_current_commit taking every block for the first block of an epoch.
SetCurrentCommitAnyHeight(t, d, commit, block_height) ==
    [tip |-> [current |-> commit, base |-> t.base, epoch |-> Some(commit)],
     dir |-> [d EXCEPT !.epoch_id = Some(commit)]]

\* Rusk::set_current_commit
SetCurrentCommit(t, d, commit, block_height) ==
    [tip |-> [current |-> commit, base |-> t.base,
              epoch |-> IF IsEpochBlock(block_height) THEN Some(commit)
                        ELSE t.epoch],
     dir |-> IF IsEpochBlock(block_height)
               THEN [d EXCEPT !.epoch_id = Some(commit)] ELSE d]

\* Rusk::set_base_and_delete, v the VM holding the new commit.
SetBaseAndDelete(t, v, d, commit, block_height) ==
    [tip |-> [current |-> commit, base |-> commit,
              epoch |-> IF IsEpochBlock(block_height) THEN Some(commit)
                        ELSE t.epoch],
     dir |-> IF IsEpochBlock(block_height)
               THEN [d EXCEPT !.epoch_id = Some(commit)] ELSE d,
     commits_to_delete |->
         {c \in v.commits : c # t.current /\ c # t.base /\ c # commit}]

\* A call that returns ret and changes nothing.
RuskNoEffect(ret) ==
    [ret |-> ret, tip |-> tip, vm |-> vm, dir |-> dir,
     commits_to_delete |-> commits_to_delete]

\* accept_transactions committing the session before it compares the
\* verification output with consistency_check.
AcceptTransactionsCommitFirst(block_height, txs, consistency_check) ==
    IF ~SessionOk(tip, vm) \/ ~txs.executes
      THEN RuskNoEffect(Err("Vm"))
    ELSE
      LET verification_output ==
              VerificationOutputOf(tip.current, block_height, txs)
          c == SessionCommit(vm)
          s == SetCurrentCommit(tip, dir, c.commit, block_height)
      IN  [ret |-> IF /\ consistency_check # None
                      /\ consistency_check.value # verification_output
                     THEN ErrArg("InconsistentState", verification_output)
                     ELSE Ok([spent_txs |-> txs,
                              verification_output |-> verification_output]),
           tip |-> s.tip, vm |-> c.vm, dir |-> s.dir,
           commits_to_delete |-> commits_to_delete]

\* Rusk::accept_transactions
AcceptTransactions(block_height, txs, consistency_check) ==
    IF ~SessionOk(tip, vm) \/ ~txs.executes
      THEN RuskNoEffect(Err("Vm"))
    ELSE
      LET verification_output ==
              VerificationOutputOf(tip.current, block_height, txs)
      IN  IF /\ consistency_check # None
             /\ consistency_check.value # verification_output
            THEN RuskNoEffect(ErrArg("InconsistentState", verification_output))
            ELSE
              LET c == SessionCommit(vm)
                  s == SetCurrentCommit(tip, dir, c.commit, block_height)
              IN  [ret |-> Ok([spent_txs |-> txs,
                               verification_output |-> verification_output]),
                   tip |-> s.tip, vm |-> c.vm, dir |-> s.dir,
                   commits_to_delete |-> commits_to_delete]

\* Rusk::finalize_transactions; the commits set_base_and_delete hands to the
\* spawned delete_commits task join the commits waiting to be deleted.
FinalizeTransactions(block_height, txs, consistency_check) ==
    IF ~SessionOk(tip, vm) \/ ~txs.executes
      THEN RuskNoEffect(Err("Vm"))
    ELSE
      LET verification_output ==
              VerificationOutputOf(tip.current, block_height, txs)
      IN  IF /\ consistency_check # None
             /\ consistency_check.value # verification_output
            THEN RuskNoEffect(ErrArg("InconsistentState", verification_output))
            ELSE
              LET c == SessionCommit(vm)
                  s == SetBaseAndDelete(tip, c.vm, dir, c.commit, block_height)
              IN  [ret |-> Ok([spent_txs |-> txs,
                               verification_output |-> verification_output]),
                   tip |-> s.tip, vm |-> c.vm,
                   dir |-> [s.dir EXCEPT !.state_id = c.commit],
                   commits_to_delete |->
                       commits_to_delete \cup s.commits_to_delete]

\* Rusk::revert
Revert(state_hash) ==
    IF state_hash \notin vm.commits
      THEN RuskNoEffect(ErrArg("CommitNotFound", state_hash))
      ELSE [ret |-> Ok([commit |-> state_hash]),
            tip |-> [tip EXCEPT !.current = state_hash],
            vm |-> vm, dir |-> dir, commits_to_delete |-> commits_to_delete]

\* Rusk::revert_to_base_root
RevertToBaseRoot == Revert(tip.base)

\* revert_to_epoch_root that leaves the state id file as it is.
RevertToEpochRootNoWrite ==
    IF tip.epoch = None
      THEN RuskNoEffect(Err("LastEpochNotFound"))
    ELSE IF tip.epoch.value \notin vm.commits
      THEN RuskNoEffect(ErrArg("CommitNotFound", tip.epoch.value))
    ELSE [ret |-> Ok([commit |-> tip.epoch.value]),
          tip |-> [tip EXCEPT !.current = tip.epoch.value,
                              !.base = tip.epoch.value],
          vm |-> vm,
          dir |-> dir,
          commits_to_delete |-> commits_to_delete]

\* Rusk::revert_to_epoch_root
RevertToEpochRoot ==
    IF tip.epoch = None
      THEN RuskNoEffect(Err("LastEpochNotFound"))
    ELSE IF tip.epoch.value \notin vm.commits
      THEN RuskNoEffect(ErrArg("CommitNotFound", tip.epoch.value))
    ELSE [ret |-> Ok([commit |-> tip.epoch.value]),
          tip |-> [tip EXCEPT !.current = tip.epoch.value,
                              !.base = tip.epoch.value],
          vm |-> vm,
          dir |-> [dir EXCEPT !.state_id = tip.epoch.value],
          commits_to_delete |-> commits_to_delete]

\* The history after a call of Rusk with effects e.
RuskCall(op, args, e) ==
    /\ out' = [op |-> op, args |-> args, ret |-> e.ret, reg_call |-> NoRegCall]
    /\ tip' = e.tip
    /\ vm' = e.vm
    /\ dir' = e.dir
    /\ commits_to_delete' = e.commits_to_delete
    /\ UNCHANGED ConsensusState

RAcceptTransactions(block_height, txs, consistency_check) ==
    /\ vm.created < MaxCommits
    /\ RuskCall("rusk.accept_transactions",
                <<block_height, txs, consistency_check>>,
                AcceptTransactions(block_height, txs, consistency_check))

RFinalizeTransactions(block_height, txs, consistency_check) ==
    /\ vm.created < MaxCommits
    /\ RuskCall("rusk.finalize_transactions",
                <<block_height, txs, consistency_check>>,
                FinalizeTransactions(block_height, txs, consistency_check))

RRevert(state_hash) ==
    RuskCall("rusk.revert", <<state_hash>>, Revert(state_hash))

RRevertToBaseRoot ==
    RuskCall("rusk.revert_to_base_root", <<>>, RevertToBaseRoot)

RRevertToEpochRoot ==
    RuskCall("rusk.revert_to_epoch_root", <<>>, RevertToEpochRoot)

\* One step of a spawned delete_commits task: the VM deletes the commit.
DeleteCommits(commit) ==
    /\ commit \in commits_to_delete
    /\ out' = [op |-> "rusk.delete_commits", args |-> <<commit>>, ret |-> OkUnit,
               reg_call |-> NoRegCall]
    /\ vm' = [vm EXCEPT !.commits = @ \ {commit}]
    /\ commits_to_delete' = commits_to_delete \ {commit}
    /\ UNCHANGED <<tip, dir>>
    /\ UNCHANGED ConsensusState

\* The chain component calling Rusk, with the deletion tasks it spawned.
NextRusk ==
    \/ \E block_height \in BlockHeights, txs \in Txs :
         \E consistency_check \in ConsistencyChecks(
                VerificationOutputOf(tip.current, block_height, txs)) :
             RAcceptTransactions(block_height, txs, consistency_check)
    \/ \E block_height \in BlockHeights, txs \in Txs :
         \E consistency_check \in ConsistencyChecks(
                VerificationOutputOf(tip.current, block_height, txs)) :
             RFinalizeTransactions(block_height, txs, consistency_check)
    \/ \E state_hash \in CommitIds : RRevert(state_hash)
    \/ RRevertToBaseRoot
    \/ RRevertToEpochRoot
    \/ \E commit \in CommitIds : DeleteCommits(commit)

SpecRusk == Init /\ [][NextRusk]_vars

\* ------------------------------------- Rusk::execute_transactions (69-154)

\* What executing a transaction gives: the call fails (the transaction is
\* unspendable), or it returns a receipt with the gas it spent.
TxOutcomes == [fails : {TRUE}, gas_spent : {0}]
                  \cup [fails : {FALSE}, gas_spent : 1..MaxGas]

\* The transaction lists handed to execute_transactions: up to MaxTxs
\* transactions, named by their position in the list.
RECURSIVE TxLists(_)
TxLists(n) ==
    IF n = 0 THEN {<<>>}
    ELSE LET shorter == TxLists(n - 1) IN
         shorter \cup
         {Append(l, [id |-> Len(l) + 1, fails |-> o.fails,
                     gas_spent |-> o.gas_spent]) :
              l \in {s \in shorter : Len(s) = n - 1}, o \in TxOutcomes}

BlockGasLimits == 1..(MaxGas + 1)

\* The state of a session: the transactions executed in it, in order.
NewSession == <<>>

\* The loop of execute_transactions that goes on with the session that has
\* executed a transaction over the block gas left.
RECURSIVE ExecuteLoopSameSession(_, _, _)
ExecuteLoopSameSession(txs, i, s) ==
    IF i > Len(txs) THEN s
    ELSE LET unspent_tx == txs[i] IN
         IF unspent_tx.fails
           THEN ExecuteLoopSameSession(txs, i + 1,
                    [s EXCEPT !.discarded_txs = Append(@, unspent_tx)])
         ELSE IF unspent_tx.gas_spent > s.block_gas_left
           THEN ExecuteLoopSameSession(txs, i + 1,
                    [s EXCEPT !.session = Append(@, unspent_tx.id)])
         ELSE ExecuteLoopSameSession(txs, i + 1,
                    [s EXCEPT !.session = Append(@, unspent_tx.id),
                              !.block_gas_left = @ - unspent_tx.gas_spent,
                              !.spent_txs = Append(@, unspent_tx)])

\* The loop of execute_transactions from the i-th transaction on: s holds the
\* session, the block gas left and both lists.
RECURSIVE ExecuteLoop(_, _, _)
ExecuteLoop(txs, i, s) ==
    IF i > Len(txs) THEN s
    ELSE LET unspent_tx == txs[i] IN
         IF unspent_tx.fails
           THEN ExecuteLoop(txs, i + 1,
                    [s EXCEPT !.discarded_txs = Append(@, unspent_tx)])
         ELSE IF unspent_tx.gas_spent > s.block_gas_left
           THEN ExecuteLoop(txs, i + 1,
                    [s EXCEPT !.session =
                         [k \in 1..Len(s.spent_txs) |-> s.spent_txs[k].id]])
         ELSE ExecuteLoop(txs, i + 1,
                    [s EXCEPT !.session = Append(@, unspent_tx.id),
                              !.block_gas_left = @ - unspent_tx.gas_spent,
                              !.spent_txs = Append(@, unspent_tx)])

\* Rusk::execute_transactions; reward_ok says whether the calls of
\* reward_slash_and_update_root succeed.  The state root is the root of the
\* session, the event hash covers the events of the spent transactions.
ExecuteTransactions(txs, block_gas_limit, reward_ok) ==
    IF ~SessionOk(tip, vm) THEN Err("Vm")
    ELSE
      LET s == ExecuteLoop(txs, 1,
                   [session |-> NewSession, block_gas_left |-> block_gas_limit,
                    spent_txs |-> <<>>, discarded_txs |-> <<>>])
      IN  IF ~reward_ok THEN Err("Vm")
          ELSE Ok([spent_txs |-> s.spent_txs,
                   discarded_txs |-> s.discarded_txs,
                   verification_output |->
                       [state_root |-> <<tip.current, s.session>>,
                        event_hash |->
                            [k \in 1..Len(s.spent_txs) |-> s.spent_txs[k].id]]])

\* execute_transactions commits nothing: the session is dropped.
RExecuteTransactions(txs, block_gas_limit, reward_ok) ==
    RuskCall("rusk.execute_transactions", <<txs, block_gas_limit, reward_ok>>,
             RuskNoEffect(ExecuteTransactions(txs, block_gas_limit, reward_ok)))

\* The block generator executing the transactions of a candidate block.
NextExecute ==
    \E txs \in TxLists(MaxTxs), block_gas_limit \in BlockGasLimits,
       reward_ok \in BOOLEAN :
        RExecuteTransactions(txs, block_gas_limit, reward_ok)

SpecExecute == Init /\ [][NextExecute]_vars

\* --------------------- header validation (node/chain/header_validation.rs)

\* The largest number of entries of failed_iterations.cert_list.
MaxFailedIterations == 2

\* provisioners.get_generator(iteration, seed, height): the committees of the
\* model have the same generator in every iteration.
GetGenerator(iteration) == Generator

\* QuorumResult {total, target_quorum} of the signers of a StepVotes.
QuorumResult(sv, committee) ==
    [total |-> SumWeight(sv.bitset), target_quorum |-> QuorumThreshold(committee)]

\* QuorumResult::quorum_reached
QuorumReached(quorum_result) == quorum_result.total >= quorum_result.target_quorum

\* message::Header {round, iteration, block_hash} of verify_block_cert
CertHeader(height, iteration, block_hash) ==
    [round |-> height, iteration |-> iteration, block_hash |-> block_hash]

\* verifiers::verify_step_votes(sv, committee, seed, hdr, step_name,
\* enable_quorum_check): verify_votes over the step of the header's
\* iteration, giving the quorum result of the signers.
VerifyStepVotes(sv, committee, hdr, step_name, enable_quorum_check) ==
    LET r == VerifyVotes(hdr.block_hash, sv, committee,
                         StepFromName(hdr.iteration, step_name),
                         enable_quorum_check)
    IN IF r = "Ok" THEN Ok(QuorumResult(sv, committee)) ELSE Err(r)

\* verify_block_cert(seed, provisioners, block_hash, height, cert, iteration,
\* enable_quorum_check): the validation step votes, then the ratification
\* step votes; the pair of their quorum results.
VerifyBlockCert(block_hash, height, cert, iteration, enable_quorum_check) ==
    LET hdr == CertHeader(height, iteration, block_hash)
        validation == VerifyStepVotes(cert.validation, TheCommittee, hdr,
                                      Validation, enable_quorum_check)
        ratification == VerifyStepVotes(cert.ratification, TheCommittee, hdr,
                                        Ratification, enable_quorum_check)
    IN IF validation.tag = "Err" THEN ErrArg("invalid validation", validation.error)
       ELSE IF ratification.tag = "Err"
         THEN ErrArg("invalid ratification", ratification.error)
       ELSE Ok(<<validation.value, ratification.value>>)

\* The loop of verify_failed_iterations taking a missing entry for an
\* attested one.
RECURSIVE VerifyFailedLoopSkipsMissing(_, _, _, _)
VerifyFailedLoopSkipsMissing(cert_list, height, iter, attested) ==
    IF iter >= Len(cert_list) THEN Ok([attested |-> attested])
    ELSE LET entry == cert_list[iter + 1] IN
         IF entry = None
           THEN VerifyFailedLoopSkipsMissing(cert_list, height, iter + 1, attested)
         ELSE IF entry.value.pk # GetGenerator(iter % 256)
           THEN Err("Invalid generator")
         ELSE LET quorums == VerifyBlockCert(EmptyHash, height, entry.value.cert,
                                             iter % 256, TRUE)
              IN IF quorums.tag = "Err" THEN quorums
                 ELSE VerifyFailedLoopSkipsMissing(cert_list, height, iter + 1,
                          /\ attested
                          /\ QuorumReached(quorums.value[1])
                          /\ QuorumReached(quorums.value[2]))

\* The loop of verify_failed_iterations from the entry of iteration iter on:
\* a missing entry clears attested, an entry of another generator or with a
\* certificate that does not verify ends the loop with the error.
RECURSIVE VerifyFailedLoop(_, _, _, _)
VerifyFailedLoop(cert_list, height, iter, attested) ==
    IF iter >= Len(cert_list) THEN Ok([attested |-> attested])
    ELSE LET entry == cert_list[iter + 1] IN
         IF entry = None
           THEN VerifyFailedLoop(cert_list, height, iter + 1, FALSE)
         ELSE IF entry.value.pk # GetGenerator(iter % 256)
           THEN Err("Invalid generator")
         ELSE LET quorums == VerifyBlockCert(EmptyHash, height, entry.value.cert,
                                             iter % 256, TRUE)
              IN IF quorums.tag = "Err" THEN quorums
                 ELSE VerifyFailedLoop(cert_list, height, iter + 1,
                          /\ attested
                          /\ QuorumReached(quorums.value[1])
                          /\ QuorumReached(quorums.value[2]))

\* Validator::verify_failed_iterations(candidate_block)
VerifyFailedIterations(candidate_block) ==
    VerifyFailedLoop(candidate_block.failed_iterations, candidate_block.height,
                     0, TRUE)

\* The StepVotes a certificate of a failed iteration carries for a step: the
\* NoCandidate quorum of the step, signers below the threshold, an aggregate
\* signature of other signers than the bitset says, and the quorum of the
\* same step of the next iteration.
CertStepVotes(iteration, step_name) ==
    {StepVotes(QuorumSet, QuorumSet, StepFromName(iteration, step_name), NoCandidate),
     StepVotes({NumMembers}, {NumMembers}, StepFromName(iteration, step_name),
               NoCandidate),
     StepVotes(QuorumSet, Members, StepFromName(iteration, step_name), NoCandidate),
     StepVotes(QuorumSet, QuorumSet, StepFromName(iteration + 1, step_name),
               NoCandidate)}

\* The entries of failed_iterations.cert_list at an iteration: None, or a
\* certificate with the key of the block generator it was built for.
CertEntries(iteration) ==
    {None} \cup
    {Some([cert |-> [validation |-> v, ratification |-> r], pk |-> pk]) :
        v \in CertStepVotes(iteration, Validation),
        r \in CertStepVotes(iteration, Ratification),
        pk \in {Generator, 1}}

\* The certificate lists of n entries.
RECURSIVE CertLists(_)
CertLists(n) ==
    IF n = 0 THEN {<<>>}
    ELSE CertLists(n - 1)
         \cup {Append(l, e) : l \in {x \in CertLists(n - 1) : Len(x) = n - 1},
                              e \in CertEntries(n - 1)}

\* The candidate headers handed to the validator.
CandidateHeaders ==
    [height : {1}, failed_iterations : CertLists(MaxFailedIterations)]

HVerifyFailedIterations(candidate_block) ==
    /\ out' = [op |-> "validator.verify_failed_iterations",
               args |-> <<candidate_block>>,
               ret |-> VerifyFailedIterations(candidate_block),
               reg_call |-> NoRegCall]
    /\ UNCHANGED ConsensusState
    /\ UNCHANGED RuskState

\* The chain validating the headers of candidate blocks.
NextHeader ==
    \E candidate_block \in CandidateHeaders :
        HVerifyFailedIterations(candidate_block)

SpecHeader == Init /\ [][NextHeader]_vars

\* ------------------------------------------- scenarios S1, S4 (sec. 8)

\* The committee of the end-to-end scenarios: nine members of weight 1, which
\* makes the threshold 6.
S4Size == 9
S4Members == {m \in 1..(S4Size + 1) : Weight(m) = 1}
S4Committee ==
    [members |-> S4Members, excluded |-> Generator,
     total_weight |-> SumWeight(S4Members)]

\* The votes of the scenario: every member's Valid or Invalid vote for the
\* candidate, of the handler's first iteration.
S4Msgs ==
    {[payload |-> "Validation", iteration |-> 0, vote |-> v, signer |-> m,
      sig_ok |-> TRUE] : v \in {Valid("h1"), Invalid("h1")}, m \in S4Members}

\* ValidationHandler::collect with the scenario's committee; a member casts
\* one vote in the step.
S4Collect(msg) ==
    /\ \A k \in DOMAIN aggr : msg.signer \notin aggr[k].bitset
    /\ LET e == ValidationCollect(msg, S4Committee) IN
        /\ aggr' = e.aggr
        /\ quorum_signals' = IF e.signal = None THEN quorum_signals
             ELSE [quorum_signals EXCEPT !.validation = Bump(@, e.signal.key)]
        /\ Record("validation.collect", <<msg>>, e)
    /\ UNCHANGED <<curr_iteration, aggregator, curr_step>>

NextS4 == \E msg \in S4Msgs : S4Collect(msg)

SpecS4 == Init /\ [][NextS4]_vars

\* ------------------------------------------------------------- claims

\* The registry holds a validation quorum for (iteration, hash): StepVotes of
\* a vote for the hash whose signers' weight reaches the threshold.
RegistryHoldsValidationQuorum(reg, iteration, hash) ==
    \E k \in DOMAIN reg.validation :
        /\ k[1] = iteration
        /\ BlockHashOf(k[2]) = hash
        /\ SumWeight(reg.validation[k].sv.bitset) >= QuorumThreshold(TheCommittee)

\* The registry holds a ratification quorum for (iteration, hash).
RegistryHoldsRatificationQuorum(reg, iteration, hash) ==
    /\ <<iteration, hash>> \in DOMAIN reg.ratification
    /\ SumWeight(reg.ratification[<<iteration, hash>>].sv.bitset)
           >= QuorumThreshold(TheCommittee)

RegistryHoldsBoth(reg, iteration, hash) ==
    /\ RegistryHoldsValidationQuorum(reg, iteration, hash)
    /\ RegistryHoldsRatificationQuorum(reg, iteration, hash)

\* C1: for every (iteration, block_hash), over any interleaving of collect and
\* collect_from_past calls on the two handlers, at most one Quorum message for
\* the pair is returned to the round driver as a Ready output.
C1_AtMostOneQuorumOutput ==
    \A pair \in Pairs : Count(quorum_out, pair) <= 1

\* C2: for every (iteration, block_hash), add_step_votes returns a Quorum
\* message at most once over any sequence of calls; a later call that would
\* produce the same Quorum returns nothing.
C2_RegistryEmitsAtMostOnce ==
    /\ \A pair \in Pairs : Count(reg_out, pair) <= 1
    /\ out.reg_call.called /\ out.reg_call.emitted_before
           => out.reg_call.ret = None

\* C2's case: the pair's Quorum was returned once, and a later add_step_votes
\* call for the pair, with both quorums in the registry, returned nothing.
C2_Witness ==
    /\ out.reg_call.called
    /\ out.reg_call.emitted_before
    /\ out.reg_call.ret = None
    /\ Count(reg_out, <<out.reg_call.iteration, out.reg_call.hash>>) = 1
    /\ RegistryHoldsBoth(sv_registry, out.reg_call.iteration, out.reg_call.hash)

\* C3: no terminal certificate is lost: in every reachable state in which the
\* registry holds both a validation quorum and a ratification quorum for the
\* same (iteration, block_hash), a Quorum message for that pair has been
\* returned to the round driver as a Ready output of some handler call.
C3_NoCertificateLost ==
    \A pair \in Pairs :
        RegistryHoldsBoth(sv_registry, pair[1], pair[2])
            => Count(quorum_out, pair) >= 1

\* The quorum_reached = true returns for the buckets of an aggregator: one
\* for a bucket whose weight has reached the threshold, none for any other.
OneSignalPerQuorum(a, signals) ==
    /\ DOMAIN signals \subseteq DOMAIN a
    /\ \A k \in DOMAIN a :
           Count(signals, k) =
               IF SumWeight(a[k].bitset) >= QuorumThreshold(TheCommittee)
                 THEN 1 ELSE 0

\* C4: over any delivery order of distinct committee-member votes for one
\* bucket, collect_vote returns quorum_reached = true on exactly one call, the
\* first after which the bucket's weight is at least T = ceil(2W/3); every
\* earlier and every later call for the bucket returns false.
C4_QuorumReachedExactlyOnce ==
    /\ OneSignalPerQuorum(aggr, quorum_signals.validation)
    /\ OneSignalPerQuorum(aggregator, quorum_signals.ratification)

\* C4's case: every member's vote is in a bucket, so a vote came before or
\* after the one that reached the threshold, and the quorum was reported once.
C4_Witness ==
    \E k \in DOMAIN aggr :
        /\ aggr[k].bitset = Members
        /\ Count(quorum_signals.validation, k) = 1

\* StepVotes of a ratification quorum over (step, hash).
IsRatificationQuorum(sv, step, hash) ==
    /\ sv.bitset \subseteq Members
    /\ SumWeight(sv.bitset) >= QuorumThreshold(TheCommittee)
    /\ sv.aggregate_signature = [signers |-> sv.bitset, step |-> step, key |-> hash]

\* C5: every Quorum message returned by RatificationHandler.collect carries a
\* validation StepVotes that is a validation quorum over the header's
\* block_hash and a ratification StepVotes that is a ratification quorum over
\* that same block_hash, both for the header's iteration.
C5_QuorumVotesMatchHeader ==
    out.op = "ratification.collect" /\ IsQuorumOutput(out.ret) =>
        LET q == out.ret.msg IN
        /\ VerifyVotes(q.block_hash, q.validation, TheCommittee,
                       StepFromName(FromStep(q.step), Validation), TRUE) = "Ok"
        /\ IsRatificationQuorum(q.ratification, q.step, q.block_hash)

\* C6: add_step_votes returns a Quorum message if and only if, after storing,
\* the registry holds both a validation and a ratification quorum for the
\* call's (iteration, block_hash) and none was emitted before for the pair;
\* the message it returns is for that pair.
C6_QuorumIffBothSides ==
    out.reg_call.called =>
        LET c == out.reg_call IN
        /\ c.ret # None <=>
               /\ RegistryHoldsBoth(sv_registry, c.iteration, c.hash)
               /\ ~c.emitted_before
        /\ c.ret # None => PairOf(c.ret) = <<c.iteration, c.hash>>

\* C6's case: a call returned the Quorum message of its pair while the
\* registry holds a quorum of one side only for another pair.
C6_Witness ==
    /\ out.reg_call.called
    /\ out.reg_call.ret # None
    /\ \E pair \in Pairs :
           /\ pair # <<out.reg_call.iteration, out.reg_call.hash>>
           /\ \/ RegistryHoldsValidationQuorum(sv_registry, pair[1], pair[2])
              \/ RegistryHoldsRatificationQuorum(sv_registry, pair[1], pair[2])
           /\ ~RegistryHoldsBoth(sv_registry, pair[1], pair[2])

\* What both handlers' state and the registry are.
HandlerState ==
    <<aggr, candidate, curr_iteration, aggregator, validation_result, curr_step,
      sv_registry>>

\* The step is a call of the operation.
Called(op) == out'.op = op /\ n_calls' = n_calls + 1

OtherStepsUntouched(a, b, step) ==
    \A k \in DOMAIN b : k[1] # step => k \in DOMAIN a /\ b[k] = a[k]

\* No quorum_reached = true return for a bucket of the given step.
NoSignalForStep(signals, later, step) ==
    \A k \in DOMAIN later : k[1] = step => Count(later, k) = Count(signals, k)

\* C8: a vote collected through collect_from_past for iteration N adds no
\* signer or weight to an aggregator bucket of any other iteration, in
\* particular not of the handler's current iteration, and causes no
\* quorum_reached for the current iteration.
C8_PastVoteStaysInItsIteration ==
    [][/\ Called("validation.collect_from_past")
              /\ out'.args[1].payload = "Validation"
          => /\ OtherStepsUntouched(aggr, aggr', GetStep(out'.args[1]))
             /\ NoSignalForStep(quorum_signals.validation,
                                quorum_signals'.validation,
                                StepFromName(curr_iteration, Validation))
       /\ Called("ratification.collect_from_past")
          => /\ OtherStepsUntouched(aggregator, aggregator', out'.args[1].step)
             /\ NoSignalForStep(quorum_signals.ratification,
                                quorum_signals'.ratification, curr_step)
      ]_vars

\* C8's case: collect_from_past aggregated a vote of another iteration while
\* the aggregator holds votes of the handler's current iteration.
C8_Witness ==
    /\ out.op = "validation.collect_from_past"
    /\ out.reg_call.called
    /\ out.reg_call.iteration # curr_iteration
    /\ \E k \in DOMAIN aggr : k[1] = StepFromName(curr_iteration, Validation)

\* The message's vote completes the quorum of its bucket: the bucket holds
\* votes below the threshold and the signer's weight lifts it to the
\* threshold.
CompletesQuorum(a, msg) ==
    LET k == <<GetStep(msg), msg.vote>> IN
    /\ msg.vote # NoQuorum
    /\ k \in DOMAIN a
    /\ a[k].bitset # {}
    /\ SumWeight(a[k].bitset) < QuorumThreshold(TheCommittee)
    /\ msg.signer \in Members \ a[k].bitset
    /\ SumWeight(a[k].bitset \cup {msg.signer}) >= QuorumThreshold(TheCommittee)

\* C9: when votes below quorum for iteration N were collected, the handler
\* moved on, and the vote that completes the quorum for N is delivered through
\* collect_from_past, the registry afterwards holds a validation quorum for N;
\* and if a ratification quorum for the same (N, block_hash) was already in
\* the registry, the call returns Ready(Quorum) for N.
C9_LateVoteClosesCertificate ==
    [][/\ Called("validation.collect_from_past")
       /\ out'.args[1].payload = "Validation"
       /\ CompletesQuorum(aggr, out'.args[1])
       => LET msg == out'.args[1]
              hash == BlockHashOf(msg.vote)
          IN  /\ RegistryHoldsValidationQuorum(sv_registry', msg.iteration, hash)
              /\ RegistryHoldsRatificationQuorum(sv_registry, msg.iteration, hash)
                     => /\ IsQuorumOutput(out'.ret)
                        /\ PairOf(out'.ret.msg) = <<msg.iteration, hash>>
      ]_vars

\* C9's case: after a reset to the next iteration, collect_from_past completed
\* the bucket of the earlier iteration with its last member's vote and
\* returned the Quorum message of that iteration.
C9_Witness ==
    /\ out.op = "validation.collect_from_past"
    /\ IsQuorumOutput(out.ret)
    /\ curr_iteration = out.args[1].iteration + 1
    /\ PairOf(out.ret.msg) = <<out.args[1].iteration, BlockHashOf(out.args[1].vote)>>
    /\ aggr[<<GetStep(out.args[1]), out.args[1].vote>>].bitset = Members
    /\ SumWeight(Members \ {out.args[1].signer}) < QuorumThreshold(TheCommittee)

\* C10 as stated: ValidationHandler.collect on a Validation message whose
\* header.iteration differs from curr_iteration returns
\* InvalidMsgIteration(header.iteration) and changes neither the aggregator
\* nor the registry.
C10_AnyVote ==
    [][/\ Called("validation.collect")
       /\ out'.args[1].payload = "Validation"
       /\ out'.args[1].iteration # curr_iteration
       => /\ out'.ret = ErrArg("InvalidMsgIteration", out'.args[1].iteration)
          /\ UNCHANGED <<aggr, sv_registry>>
      ]_vars

\* C10, amended: ValidationHandler.collect on a Validation message whose vote
\* is not NoQuorum and whose header.iteration differs from curr_iteration
\* returns InvalidMsgIteration(header.iteration); on any Validation message of
\* another iteration it changes neither the aggregator nor the registry.
C10_InvalidMsgIteration ==
    [][/\ Called("validation.collect")
       /\ out'.args[1].payload = "Validation"
       /\ out'.args[1].iteration # curr_iteration
       => /\ out'.args[1].vote # NoQuorum
                 => out'.ret = ErrArg("InvalidMsgIteration", out'.args[1].iteration)
          /\ UNCHANGED <<aggr, sv_registry>>
      ]_vars

\* C10's case: with votes in the aggregator, collect rejected a message of
\* another iteration with a vote other than NoQuorum.
C10_Witness ==
    /\ out.op = "validation.collect"
    /\ out.args[1].payload = "Validation"
    /\ out.args[1].iteration # curr_iteration
    /\ out.args[1].vote # NoQuorum
    /\ out.ret = ErrArg("InvalidMsgIteration", out.args[1].iteration)
    /\ aggr # <<>>

\* The Validation messages that carry a NoQuorum vote, of every iteration and
\* signer.
NoQuorumMsgs == {msg \in ValidationPayloads : msg.vote = NoQuorum}

\* No bucket of the Validation handler's aggregator and no validation slot of
\* the registry is one of a NoQuorum vote.
NoQuorumNeverHeld ==
    /\ \A k \in DOMAIN aggr : k[2] # NoQuorum
    /\ \A k \in DOMAIN sv_registry.validation : k[2] # NoQuorum

\* C11: a Validation message whose vote is NoQuorum is rejected with
\* InvalidVote by ValidationHandler.collect and by collect_from_past, whatever
\* its iteration, with the aggregator and the registry as they were and no
\* add_step_votes call; no aggregator bucket and no validation slot of the
\* registry ever holds a NoQuorum vote.
C11_NoQuorumRejected ==
    /\ \A msg \in NoQuorumMsgs :
           /\ ValidationCollect(msg, TheCommittee) =
                  NoEffect(aggr, sv_registry, ErrArg("InvalidVote", NoQuorum))
           /\ ValidationCollectFromPast(msg, TheCommittee) =
                  NoEffect(aggr, sv_registry, ErrArg("InvalidVote", NoQuorum))
    /\ out.op \in {"validation.collect", "validation.collect_from_past"}
           /\ out.args[1] \in NoQuorumMsgs
       => /\ out.ret = ErrArg("InvalidVote", NoQuorum)
          /\ ~out.reg_call.called
    /\ NoQuorumNeverHeld

\* C11's case: collect rejected a NoQuorum vote of a committee member, sent for
\* the handler's iteration, while the aggregator holds votes of that iteration.
C11_Witness ==
    /\ out.op = "validation.collect"
    /\ out.args[1] \in NoQuorumMsgs
    /\ out.args[1].iteration = curr_iteration
    /\ out.args[1].signer \in Members
    /\ out.ret = ErrArg("InvalidVote", NoQuorum)
    /\ \E k \in DOMAIN aggr : k[1] = StepFromName(curr_iteration, Validation)

\* The StepVotes collect_vote returned for the last vote of the bucket k: the
\* bucket's members and their aggregate signature over (step, vote).
RunningStepVotes(a, k) == StepVotes(a[k].bitset, a[k].bitset, k[1], k[2])

\* The ValidationResult message of a quorum for the vote.
ExpectedValidationResult(sv, vote) ==
    [payload |-> "ValidationResult", sv |-> sv, vote |-> vote,
     quorum |-> CASE vote.kind = "Valid" -> "Valid"
                  [] vote.kind = "Invalid" -> "Invalid"
                  [] vote.kind = "NoCandidate" -> "NoCandidate"]

\* C12: when ValidationHandler.collect aggregates a current-iteration vote and
\* the aggregator reports quorum_reached, collect returns
\* Ready(ValidationResult) with the StepVotes the aggregator returned for the
\* call, the triggering vote, and the QuorumType Valid for Valid(h), Invalid
\* for Invalid(h), NoCandidate for NoCandidate; when the quorum is not reached
\* it returns Pending.  No ValidationResult has the QuorumType NoQuorum.
C12_ValidationResultOnQuorum ==
    /\ out.op = "validation.collect" /\ out.reg_call.called =>
           LET msg == out.args[1]
               k == <<GetStep(msg), msg.vote>>
           IN  /\ msg.iteration = curr_iteration
               /\ out.reg_call.sv = RunningStepVotes(aggr, k)
               /\ out.ret = IF out.reg_call.quorum_reached
                              THEN Ready(ExpectedValidationResult(
                                             RunningStepVotes(aggr, k), msg.vote))
                              ELSE Pending
    /\ out.ret.tag = "Ready" /\ out.ret.msg.payload = "ValidationResult"
           => /\ out.op = "validation.collect"
              /\ out.ret.msg.quorum # "NoQuorum"

\* C12's case: collect returned the ValidationResult of a quorum of Invalid
\* votes while the bucket of another vote holds votes below the quorum.
C12_Witness ==
    /\ out.op = "validation.collect"
    /\ out.reg_call.called
    /\ out.reg_call.quorum_reached
    /\ out.ret.tag = "Ready"
    /\ out.ret.msg.quorum = "Invalid"
    /\ \E k \in DOMAIN aggr :
           /\ k[1] = GetStep(out.args[1])
           /\ k[2] # out.args[1].vote
           /\ SumWeight(aggr[k].bitset) < QuorumThreshold(TheCommittee)

\* The add_step_votes call collect makes for the message: the message's
\* iteration and vote, the bucket's running StepVotes, the Validation step
\* kind, quorum_reached as the aggregator reported it for the call, and the
\* generator the committee excludes; the slot then holds these StepVotes.
RecordedInRegistry(msg, a, later, signals, later_signals, reg_call, reg) ==
    LET k == <<GetStep(msg), msg.vote>> IN
    /\ reg_call.called
    /\ reg_call.iteration = msg.iteration
    /\ reg_call.key = msg.vote
    /\ reg_call.sv = RunningStepVotes(later, k)
    /\ reg_call.kind = Validation
    /\ reg_call.quorum_reached = (Count(later_signals, k) # Count(signals, k))
    /\ reg_call.generator = TheCommittee.excluded
    /\ <<msg.iteration, msg.vote>> \in DOMAIN reg.validation
    /\ reg.validation[<<msg.iteration, msg.vote>>].sv = reg_call.sv

\* C13 as stated: every collect call on a current-iteration Validation message
\* with a vote other than NoQuorum calls add_step_votes for (iteration, vote,
\* StepVotes, Validation, quorum_reached) with the committee's excluded
\* generator, whether or not the quorum was reached.
C13_EveryCallRecords ==
    [][/\ Called("validation.collect")
       /\ out'.args[1].payload = "Validation"
       /\ out'.args[1].vote # NoQuorum
       /\ out'.args[1].iteration = curr_iteration
       => RecordedInRegistry(out'.args[1], aggr, aggr',
                             quorum_signals.validation, quorum_signals'.validation,
                             out'.reg_call, sv_registry')
      ]_vars

\* C13, amended: every collect call on a current-iteration Validation message
\* with a vote other than NoQuorum that the aggregator accepts (a committee
\* member's first vote for the bucket) calls add_step_votes for (iteration,
\* vote, StepVotes, Validation, quorum_reached) with the committee's excluded
\* generator, whether or not the quorum was reached; a vote the aggregator
\* rejects is not recorded and the call returns InvalidVote.
C13_AcceptedVoteRecorded ==
    [][/\ Called("validation.collect")
       /\ out'.args[1].payload = "Validation"
       /\ out'.args[1].vote # NoQuorum
       /\ out'.args[1].iteration = curr_iteration
       => LET msg == out'.args[1] IN
          IF /\ msg.signer \in TheCommittee.members
             /\ ~IsVoteCollected(aggr, msg.signer, msg.vote, GetStep(msg))
            THEN RecordedInRegistry(msg, aggr, aggr',
                                    quorum_signals.validation,
                                    quorum_signals'.validation,
                                    out'.reg_call, sv_registry')
            ELSE /\ ~out'.reg_call.called
                 /\ out'.ret = ErrArg("InvalidVote", msg.vote)
                 /\ UNCHANGED <<aggr, sv_registry>>
      ]_vars

\* C13's case: collect recorded a vote that did not reach the quorum, the
\* second StepVotes it stored in the bucket's slot.
C13_Witness ==
    /\ out.op = "validation.collect"
    /\ out.reg_call.called
    /\ ~out.reg_call.quorum_reached
    /\ out.ret = Pending
    /\ Cardinality(out.reg_call.sv.bitset) > 1
    /\ sv_registry.validation[<<out.args[1].iteration, out.args[1].vote>>].sv
           = out.reg_call.sv

\* C14: ValidationHandler.collect_from_past returns Ready only with a Quorum
\* message synthesised by the registry's add_step_votes, and returns it
\* exactly when add_step_votes returns one; it never returns a
\* ValidationResult, even when the collected vote makes the aggregator report
\* quorum_reached; a call that gets no Quorum message from the registry
\* returns Pending, unless it rejects the message with an error, which it
\* does for a payload other than Validation and for a NoQuorum vote.
C14_ReadyOnlyRegistryQuorum ==
    out.op = "validation.collect_from_past" =>
        /\ out.ret.tag = "Ready"
               => /\ out.reg_call.called
                  /\ out.reg_call.ret # None
                  /\ out.ret.msg = out.reg_call.ret
                  /\ out.ret.msg.payload = "Quorum"
        /\ out.reg_call.called /\ out.reg_call.ret # None
               => out.ret = Ready(out.reg_call.ret)
        /\ out.reg_call.called /\ out.reg_call.ret = None => out.ret = Pending
        /\ ~out.reg_call.called => out.ret.tag \in {"Pending", "Err"}
        /\ out.ret.tag = "Err"
               <=> \/ out.args[1].payload # "Validation"
                   \/ out.args[1].vote = NoQuorum

\* C14's case: collect_from_past collected the vote with which the aggregator
\* reported quorum_reached, the registry returned no Quorum message, and the
\* call returned Pending.
C14_Witness ==
    /\ out.op = "validation.collect_from_past"
    /\ out.reg_call.called
    /\ out.reg_call.quorum_reached
    /\ out.reg_call.ret = None
    /\ out.ret = Pending

\* C15: handle_timeout of both handlers returns Ready(Empty) in every handler
\* state (no votes, votes split below quorum, quorum already reached) and
\* leaves the aggregators, the current iteration and step, the candidate, the
\* validation result and the registry unchanged.
C15_HandleTimeout ==
    [][/\ ValidationHandleTimeout' = Ready(EmptyMsg)
       /\ RatificationHandleTimeout' = Ready(EmptyMsg)
       /\ Called("validation.handle_timeout") \/ Called("ratification.handle_timeout")
          => /\ out'.ret = Ready(EmptyMsg)
             /\ UNCHANGED HandlerState
      ]_vars

\* C15's case: the Validation handler's handle_timeout returned with the votes
\* of the current iteration split over two buckets, both below the quorum.
C15_Witness ==
    /\ out.op = "validation.handle_timeout"
    /\ out.ret = Ready(EmptyMsg)
    /\ \E k1, k2 \in DOMAIN aggr :
           /\ k1 # k2
           /\ k1[1] = StepFromName(curr_iteration, Validation)
           /\ k2[1] = k1[1]
           /\ SumWeight(aggr[k1].bitset) < QuorumThreshold(TheCommittee)
           /\ SumWeight(aggr[k2].bitset) < QuorumThreshold(TheCommittee)

\* The Validation messages whose (signer, vote, step) the aggregator a has
\* collected.
Collected(a, msg) ==
    /\ <<GetStep(msg), msg.vote>> \in DOMAIN a
    /\ msg.signer \in a[<<GetStep(msg), msg.vote>>].bitset

CollectedMsgs(a) == {msg \in ValidationPayloads : Collected(a, msg)}

\* C16: a vote with the (signer, vote, step) of a collected one is rejected:
\* is_vote_collected is true, ValidationHandler.verify returns
\* VoteAlreadyCollected, collect_vote returns an error, and collect_vote,
\* collect and collect_from_past called with it leave every bucket's bitset,
\* aggregate signature and accumulated weight, and the registry, as they
\* were; collect returns InvalidVote for it.
C16_DuplicateRejected ==
    /\ \A msg \in CollectedMsgs(aggr) :
           LET cv == CollectVote(aggr, TheCommittee, msg.signer, msg.sig_ok,
                                 msg.vote, GetStep(msg))
               c == ValidationCollect(msg, TheCommittee)
               p == ValidationCollectFromPast(msg, TheCommittee)
           IN  /\ IsVoteCollected(aggr, msg.signer, msg.vote, GetStep(msg))
               /\ ValidationVerify(msg) = Err("VoteAlreadyCollected")
               /\ ~cv.ok /\ cv.aggr = aggr
               /\ c.aggr = aggr /\ c.reg = sv_registry /\ ~c.reg_call.called
               /\ msg.iteration = curr_iteration
                      => c.ret = ErrArg("InvalidVote", msg.vote)
               /\ p.aggr = aggr /\ p.reg = sv_registry /\ ~p.reg_call.called
    /\ \A k \in DOMAIN aggr : aggr[k].weight = SumWeight(aggr[k].bitset)
    /\ out.op = "validation.collect" /\ out.ret.tag = "Err"
           => ~out.reg_call.called

\* C16's case: collect was called a second time with the vote of a member
\* whose weight is in the bucket, and the weight is what it was.
C16_Witness ==
    /\ out.op = "validation.collect"
    /\ out.args[1].payload = "Validation"
    /\ Collected(aggr, out.args[1])
    /\ out.args[1].iteration = curr_iteration
    /\ out.ret = ErrArg("InvalidVote", out.args[1].vote)
    /\ LET b == aggr[<<GetStep(out.args[1]), out.args[1].vote>>] IN
           /\ b.bitset = {out.args[1].signer}
           /\ b.weight = Weight(out.args[1].signer)

\* The split of scenario S4 in the aggregator a: five Valid and four Invalid
\* votes for the candidate in the buckets of one step.
SplitVote(a) ==
    /\ <<1, Valid("h1")>> \in DOMAIN a
    /\ <<1, Invalid("h1")>> \in DOMAIN a
    /\ Cardinality(a[<<1, Valid("h1")>>].bitset) = 5
    /\ Cardinality(a[<<1, Invalid("h1")>>].bitset) = 4

\* C17: votes with different vote keys in one step accumulate in separate
\* aggregator buckets: a collected vote adds its signer and weight to the
\* bucket of its own key and leaves every other bucket as it was; with nine
\* unit-weight members and threshold 6, a split of 5 Valid(h) and 4
\* Invalid(h) votes reaches the quorum in neither bucket, both buckets keep
\* their votes, and every collect call of the split returned Pending.
C17_SeparateBuckets ==
    [][/\ QuorumThreshold(S4Committee) = 6
       /\ Called("validation.collect") =>
           LET msg == out'.args[1]
               key == <<GetStep(msg), msg.vote>>
           IN  /\ \A k \in DOMAIN aggr' \ {key} : k \in DOMAIN aggr /\ aggr'[k] = aggr[k]
               /\ aggr'[key].bitset = Bucket(aggr, key).bitset \cup {msg.signer}
               /\ aggr'[key].weight = Bucket(aggr, key).weight + Weight(msg.signer)
               /\ SplitVote(aggr') =>
                      /\ aggr'[<<1, Valid("h1")>>].weight = 5
                      /\ aggr'[<<1, Invalid("h1")>>].weight = 4
                      /\ \A k \in DOMAIN aggr' : ~aggr'[k].quorum
                      /\ quorum_signals'.validation = <<>>
                      /\ out'.ret = Pending
                      /\ \A k \in DOMAIN sv_registry'.validation :
                             ~sv_registry'.validation[k].quorum
      ]_vars

\* C17's case: the nine members have voted, five Valid and four Invalid, and
\* the last call returned Pending.
C17_Witness ==
    /\ SplitVote(aggr)
    /\ out.op = "validation.collect"
    /\ out.ret = Pending
    /\ aggr[<<1, Valid("h1")>>].bitset \cup aggr[<<1, Invalid("h1")>>].bitset
           = S4Members

\* Every bucket of the aggregator a counts committee members only, each once:
\* its weight is the sum of the weights of the members of its bitset, and at
\* most the committee's total weight.
BucketsSound(a, committee) ==
    \A k \in DOMAIN a :
        /\ a[k].bitset \subseteq committee.members
        /\ a[k].weight = SumWeight(a[k].bitset)
        /\ a[k].weight <= committee.total_weight

\* C18: in every reachable aggregator state and for every bucket, each
\* committee member is counted at most once, the bucket's accumulated weight
\* equals the sum of the weights of the members whose bitset bit is set, and
\* the accumulated weight never exceeds the committee's total weight.
C18_BucketWeight ==
    /\ BucketsSound(aggr, TheCommittee)
    /\ BucketsSound(aggregator, TheCommittee)

\* C18's case: a bucket holds the vote of every member, at the committee's
\* total weight, and a further vote for it was handed to the handler.
C18_Witness ==
    /\ out.op \in {"validation.collect", "validation.collect_from_past"}
    /\ ~out.reg_call.called
    /\ out.args[1].payload = "Validation"
    /\ LET k == <<GetStep(out.args[1]), out.args[1].vote>> IN
           /\ k \in DOMAIN aggr
           /\ aggr[k].bitset = TheCommittee.members
           /\ aggr[k].weight = TheCommittee.total_weight

\* The Validation messages signed by a signer outside the committee.
NonMemberMsgs ==
    {msg \in ValidationPayloads : msg.signer \notin TheCommittee.members}

\* C19: a vote whose signer is not a member of the committee is rejected:
\* collect_vote returns an error, ValidationHandler.collect returns an error
\* for the message, and no aggregator bucket and nothing in the registry
\* changes.
C19_NonMemberRejected ==
    /\ \A msg \in NonMemberMsgs :
           LET cv == CollectVote(aggr, TheCommittee, msg.signer, msg.sig_ok,
                                 msg.vote, GetStep(msg))
               c == ValidationCollect(msg, TheCommittee)
           IN  /\ ~cv.ok /\ cv.aggr = aggr
               /\ c.ret.tag = "Err"
               /\ c.aggr = aggr /\ c.reg = sv_registry /\ ~c.reg_call.called
    /\ \A k \in DOMAIN aggr : aggr[k].bitset \subseteq TheCommittee.members
    /\ \A k \in DOMAIN sv_registry.validation :
           sv_registry.validation[k].sv.bitset \subseteq TheCommittee.members
    /\ out.op = "validation.collect" /\ out.args[1] \in NonMemberMsgs
           => out.ret.tag = "Err" /\ ~out.reg_call.called

\* C19's case: with votes in the aggregator, collect rejected the generator's
\* vote for the current iteration with InvalidVote.
C19_Witness ==
    /\ out.op = "validation.collect"
    /\ out.args[1] \in NonMemberMsgs
    /\ out.args[1].vote # NoQuorum
    /\ out.args[1].iteration = curr_iteration
    /\ out.ret = ErrArg("InvalidVote", out.args[1].vote)
    /\ \E k \in DOMAIN aggr : k[1] = GetStep(out.args[1])

\* What verify is to return for the message when the aggregator is a.
ExpectedVerify(a, msg) ==
    CASE msg.payload = "Empty" -> OkUnit
      [] msg.payload = "Validation" /\ Collected(a, msg)
             -> Err("VoteAlreadyCollected")
      [] msg.payload = "Validation" /\ ~Collected(a, msg) /\ ~msg.sig_ok
             -> Err("InvalidSignature")
      [] msg.payload = "Validation" /\ ~Collected(a, msg) /\ msg.sig_ok
             -> OkUnit
      [] OTHER -> Err("InvalidMsgType")

\* C20: ValidationHandler.verify returns Ok for an Empty payload;
\* InvalidMsgType for any payload other than Validation or Empty; for a
\* Validation payload, VoteAlreadyCollected if the (signer, vote, step) was
\* already collected, otherwise InvalidSignature if the signature does not
\* verify, otherwise Ok: the duplicate check takes precedence over the
\* signature check.
C20_VerifyResult ==
    /\ \A msg \in ValidationInbox : ValidationVerify(msg) = ExpectedVerify(aggr, msg)
    /\ out.op = "validation.verify" => out.ret = ExpectedVerify(aggr, out.args[1])

\* C20's case: verify was called with a message whose signature does not
\* verify and whose (signer, vote, step) is collected, and returned
\* VoteAlreadyCollected.
C20_Witness ==
    /\ out.op = "validation.verify"
    /\ out.args[1].payload = "Validation"
    /\ ~out.args[1].sig_ok
    /\ Collected(aggr, out.args[1])
    /\ out.ret = Err("VoteAlreadyCollected")

\* C21: RatificationHandler.verify returns InvalidMsgType for any payload
\* other than Ratification, InvalidSignature when the header signature fails,
\* whatever the embedded result, and InvalidValidation whenever the signature
\* verifies and the embedded ValidationResult has the quorum type NoQuorum or
\* InvalidQuorum; it accepts only messages whose embedded result is ValidQuorum
\* or NilQuorum.
C21_RatificationVerifyErrors ==
    out.op = "ratification.verify" =>
        LET msg == out.args[1] IN
        /\ msg.payload # "Ratification" => out.ret = Err("InvalidMsgType")
        /\ msg.payload = "Ratification" =>
               /\ ~msg.sig_ok => out.ret = Err("InvalidSignature")
               /\ msg.sig_ok
                      /\ msg.validation_result.quorum \in {"NoQuorum", "InvalidQuorum"}
                  => out.ret = Err("InvalidValidation")
               /\ out.ret = OkUnit
                  => /\ msg.sig_ok
                     /\ msg.validation_result.quorum \in {"ValidQuorum", "NilQuorum"}
        /\ out.ret = OkUnit => msg.payload = "Ratification"

\* C21's case: verify was called with a message whose header signature fails
\* and whose embedded result is a NoQuorum one, and returned InvalidSignature.
C21_Witness ==
    /\ out.op = "ratification.verify"
    /\ out.args[1].payload = "Ratification"
    /\ ~out.args[1].sig_ok
    /\ out.args[1].validation_result.quorum = "NoQuorum"
    /\ out.ret = Err("InvalidSignature")
    /\ aggregator # <<>>

\* The re-verification of the embedded result fails: the generator or the
\* validation committee of the iteration is missing, the bitset has a bit for
\* a signer outside the validation committee, the signers' weight is below
\* the threshold, or the aggregate signature is not the signers' over the
\* iteration's validation step and the result's hash.
ReverificationFails(step, round_committees, result) ==
    \/ ~round_committees.generator
    \/ ~round_committees.validation_committee
    \/ ~(result.sv.bitset \subseteq TheCommittee.members)
    \/ SumWeight(result.sv.bitset) < QuorumThreshold(TheCommittee)
    \/ result.sv.aggregate_signature.signers # result.sv.bitset
    \/ result.sv.aggregate_signature.step # FromStep(step) * 3 + 1
    \/ BlockHashOf(result.sv.aggregate_signature.key) # result.hash

C23_QuorumOnRatificationQuorum ==
    out.op = "ratification.collect" /\ out.args[1].payload = "Ratification" =>
        LET msg == out.args[1]
            step == out.args[2]
            k == <<msg.step, msg.block_hash>>
        IN  IF out.reg_call.called /\ out.reg_call.quorum_reached
              THEN /\ step = curr_step
                   /\ out.reg_call.sv = RunningStepVotes(aggregator, k)
                   /\ out.ret =
                          Ready([payload |-> "Quorum",
                                 round |-> RoundUpdate.round,
                                 step |-> step,
                                 block_hash |-> msg.block_hash,
                                 validation |-> msg.validation_result.sv,
                                 ratification |-> RunningStepVotes(aggregator, k)])
              ELSE out.ret = PendingMsg(msg)

\* C23's case: collect returned the Quorum message of the vote that completed
\* the bucket, the second vote of the bucket, with the validation StepVotes of
\* the message, which are not the handler's own.
C23_Witness ==
    /\ out.op = "ratification.collect"
    /\ out.reg_call.called
    /\ out.reg_call.quorum_reached
    /\ out.ret.tag = "Ready"
    /\ Cardinality(out.ret.msg.ratification.bitset) > 1
    /\ out.ret.msg.validation = out.args[1].validation_result.sv
    /\ out.ret.msg.validation # validation_result.sv

\* C24: RatificationHandler.collect_from_past returns Ready only with the
\* Quorum message returned by the registry's add_step_votes for the call, and
\* returns it whenever the registry returns one; a call that gets no Quorum
\* message from the registry returns Pending with the message, even when the
\* collected vote makes the aggregator report quorum_reached; the handler
\* never builds a Quorum message of its own on this path.
C24_PastReadyOnlyRegistryQuorum ==
    out.op = "ratification.collect_from_past"
        /\ out.args[1].payload = "Ratification" =>
        /\ out.ret.tag = "Ready"
               => /\ out.reg_call.called
                  /\ out.reg_call.ret # None
                  /\ out.ret.msg = out.reg_call.ret
        /\ out.reg_call.called /\ out.reg_call.ret # None
               => out.ret = Ready(out.reg_call.ret)
        /\ ~(out.reg_call.called /\ out.reg_call.ret # None)
               => out.ret = PendingMsg(out.args[1])

\* C24's case: collect_from_past collected the vote with which the
\* ratification aggregator reported quorum_reached, the registry returned no
\* Quorum message, and the call returned Pending.
C24_Witness ==
    /\ out.op = "ratification.collect_from_past"
    /\ out.reg_call.called
    /\ out.reg_call.quorum_reached
    /\ out.reg_call.ret = None
    /\ out.ret = PendingMsg(out.args[1])

\* A reachable companion of C24's case: the registry returned a Quorum message
\* and collect_from_past returned that message.
C24_ReadyReached ==
    /\ out.op = "ratification.collect_from_past"
    /\ out.reg_call.called
    /\ out.reg_call.ret # None
    /\ out.ret = Ready(out.reg_call.ret)

\* C25: within one iteration, between two resets of the ValidationHandler,
\* over any sequence of votes accepted by collect, votes of one signer for
\* different vote kinds included, collect returns Ready(ValidationResult) at
\* most once.
C25_ResultOncePerIteration == results_out <= 1

\* C26: ValidationHandler.reset(i) sets curr_iteration to i and clears the
\* candidate; RatificationHandler.reset(s) sets curr_step to s and sets
\* validation_result to its default; both leave every bucket of both
\* aggregators and the registry unchanged.
C26_ResetFrame ==
    [][/\ out'.op = "validation.reset"
          => /\ curr_iteration' = out'.args[1]
             /\ candidate' = None
             /\ UNCHANGED <<aggr, aggregator, sv_registry>>
       /\ out'.op = "ratification.reset"
          => /\ curr_step' = out'.args[1]
             /\ validation_result' = DefaultValidationResult
             /\ UNCHANGED <<aggr, aggregator, sv_registry>>
      ]_vars

\* C26's case: the Validation handler was reset while it held a candidate, a
\* bucket of votes and a registry entry, and the Ratification handler, holding
\* a bucket, has its default validation result again.
C26_Witness ==
    /\ out.op = "validation.reset"
    /\ candidate = None
    /\ curr_iteration = out.args[1]
    /\ aggr # <<>>
    /\ aggregator # <<>>
    /\ sv_registry # EmptyRegistry
    /\ curr_step > 0
    /\ validation_result = DefaultValidationResult

\* The step is the Ratification step of an iteration.
IsRatificationStep(step) == step % 3 = Ratification

\* C27: the step encoding step = iteration * 3 + kind is injective and
\* round-trips: for every iteration whose steps fit in a u8 and every kind,
\* from_step(step_from_name(kind)) is the iteration, and no other (iteration,
\* kind) has the same step; so the validation step verify_validation_result
\* derives from a ratification step belongs to the iteration of that step.
C27_StepRoundTrip ==
    [][/\ /\ out.op = "step_from_name"
          /\ StepsFitU8(out.args[1])
          /\ out'.op = "from_step"
          => /\ out'.args[1] = out.args[1] * 3 + out.args[2]
             /\ out'.ret = out.args[1]
             /\ \A iteration \in 0..MaxStepIteration, kind \in StepKinds :
                    /\ StepsFitU8(iteration)
                    /\ StepFromName(iteration, kind) = out.ret
                    => <<iteration, kind>> = out.args
       /\ out'.op = "validation_step" /\ IsRatificationStep(out'.args[1])
          => /\ FromStep(out'.ret) = FromStep(out'.args[1])
             /\ out'.ret = out'.args[1] - 1
      ]_vars

\* C27's case: the ratification step of the last iteration that fits in a u8
\* was decoded to its iteration.
C27_Witness ==
    /\ out.op = "from_step"
    /\ out.args[1] = U8Max - 1
    /\ out.ret = 84
    /\ StepsFitU8(out.ret)
    /\ ~StepsFitU8(out.ret + 1)

\* C28: RatificationHandler.collect called with a step other than curr_step
\* returns Pending carrying the message unchanged, not an error, and leaves
\* the aggregator and the registry untouched; collect aggregates a
\* ratification vote only when the step is curr_step.
C28_OtherStepPending ==
    [][Called("ratification.collect") =>
          /\ out'.args[2] # curr_step
             => /\ out'.ret = PendingMsg(out'.args[1])
                /\ ~out'.reg_call.called
                /\ UNCHANGED <<aggregator, sv_registry>>
          /\ aggregator' # aggregator \/ out'.reg_call.called
             => out'.args[2] = curr_step
      ]_vars

\* C28's case: collect was called with a vote of another step than the
\* handler's, by a member whose vote the bucket of that step does not hold,
\* while the aggregator held votes, and returned Pending with the message.
C28_Witness ==
    /\ out.op = "ratification.collect"
    /\ out.args[1].payload = "Ratification"
    /\ out.args[2] # curr_step
    /\ out.args[1].signer \in Members
    /\ out.args[1].sig_ok
    /\ <<out.args[2], out.args[1].block_hash>> \notin DOMAIN aggregator
    /\ aggregator # <<>>
    /\ out.ret = PendingMsg(out.args[1])

\* C29: when a block is finalized, set_base_and_delete hands to deletion all
\* commits of the VM except the previous base commit, the previous current
\* commit, the new commit and the epoch commit if there is one; the epoch
\* commit is never among the commits to delete, so after any sequence of
\* finalizations the commit in tip.epoch is still held by the VM and
\* revert_to_epoch_root does not fail with CommitNotFound.
C29_EpochCommitKept ==
    /\ tip.epoch # None
       => /\ tip.epoch.value \notin commits_to_delete
          /\ tip.epoch.value \in vm.commits
    /\ out.op = "rusk.revert_to_epoch_root"
       => ~(out.ret.tag = "Err" /\ out.ret.error = "CommitNotFound")

\* The failure C29 excludes: revert_to_epoch_root returned CommitNotFound for
\* the epoch commit while the tip was the last finalized commit, the last
\* commit the VM created.
C29_RevertFails ==
    /\ out.op = "rusk.revert_to_epoch_root"
    /\ tip.epoch # None
    /\ out.ret = ErrArg("CommitNotFound", tip.epoch.value)
    /\ tip.current = tip.base
    /\ tip.current = vm.created
    /\ dir.state_id = tip.base

\* C30: when accept_transactions or finalize_transactions is given a
\* consistency_check that differs from the VerificationOutput it computed, it
\* returns InconsistentState with the computed output, creates no commit, and
\* leaves the tip (current, base, epoch), the commits of the VM, the commit
\* ids on disk and the commits to delete as they were before the call; with
\* consistency_check = None, or equal to the computed output, the call commits
\* the session and makes the new commit the current one.
C30_InconsistentState ==
    [][out'.op \in {"rusk.accept_transactions", "rusk.finalize_transactions"}
       /\ SessionOk(tip, vm)
       /\ out'.args[2].executes
       => LET consistency_check == out'.args[3]
              verification_output ==
                  VerificationOutputOf(tip.current, out'.args[1], out'.args[2])
          IN  IF /\ consistency_check # None
                 /\ consistency_check.value # verification_output
                THEN /\ out'.ret = ErrArg("InconsistentState", verification_output)
                     /\ UNCHANGED <<tip, vm, dir, commits_to_delete>>
                ELSE /\ out'.ret = Ok([spent_txs |-> out'.args[2],
                                      verification_output |-> verification_output])
                     /\ vm'.created = vm.created + 1
                     /\ vm'.commits = vm.commits \cup {vm'.created}
                     /\ tip'.current = vm'.created
      ]_vars

\* C30's case: accept_transactions, called on a tip that is an epoch commit
\* ahead of its base, with a consistency_check that has the state root the
\* call computed and another event hash, returned InconsistentState.
C30_Witness ==
    /\ out.op = "rusk.accept_transactions"
    /\ out.ret.tag = "Err"
    /\ out.ret.error = "InconsistentState"
    /\ out.args[3] # None
    /\ out.args[3].value.state_root = out.ret.arg.state_root
    /\ out.args[3].value.event_hash # out.ret.arg.event_hash
    /\ tip.current # tip.base
    /\ tip.epoch = Some(tip.current)
    /\ vm.created = Cardinality(vm.commits) - 1

\* C31: under any interleaving of revert, accept_transactions and
\* finalize_transactions with the delete_commits tasks spawned by
\* finalization, tip.current and tip.base never name a commit that has been
\* deleted from the VM.
C31_TipCommitsHeld ==
    /\ tip.current \in vm.commits
    /\ tip.base \in vm.commits

RECURSIVE SumGas(_)
SumGas(l) == IF l = <<>> THEN 0 ELSE Head(l).gas_spent + SumGas(Tail(l))

TxFails(tx) == tx.fails

\* The gas spent by the transactions of the spent list that come before the
\* i-th transaction of the input.
GasSpentBefore(spent_txs, i) ==
    SumGas(SelectSeq(spent_txs, LAMBDA tx : tx.id < i))

\* C32: execute_transactions partitions its input: a transaction whose
\* execution fails is in the discarded list; a transaction whose gas_spent
\* exceeds the block gas left is in neither list, and the session goes on
\* from the spent transactions alone, re-executed on a fresh session; every
\* other transaction is in the spent list, in input order.  The gas_spent of
\* the spent list sums to at most block_gas_limit.
C32_ExecutePartition ==
    out.op = "rusk.execute_transactions" /\ out.ret.tag = "Ok" =>
        LET txs == out.args[1]
            block_gas_limit == out.args[2]
            spent_txs == out.ret.value.spent_txs
            discarded_txs == out.ret.value.discarded_txs
            spent_ids == [k \in 1..Len(spent_txs) |-> spent_txs[k].id]
        IN  /\ discarded_txs = SelectSeq(txs, TxFails)
            /\ \A k \in 1..Len(spent_txs) :
                   /\ spent_txs[k].id \in 1..Len(txs)
                   /\ spent_txs[k] = txs[spent_txs[k].id]
                   /\ k > 1 => spent_txs[k - 1].id < spent_txs[k].id
            /\ \A i \in 1..Len(txs) :
                   (\E k \in 1..Len(spent_txs) : spent_txs[k].id = i)
                   <=> /\ ~txs[i].fails
                       /\ txs[i].gas_spent
                              <= block_gas_limit - GasSpentBefore(spent_txs, i)
            /\ SumGas(spent_txs) <= block_gas_limit
            /\ out.ret.value.verification_output.state_root
                   = <<tip.current, spent_ids>>

\* C32's case: the first transaction was spent, the second one spends more
\* than the block gas left and is in neither list, the third one fails and
\* is discarded.
C32_Witness ==
    /\ out.op = "rusk.execute_transactions"
    /\ out.ret.tag = "Ok"
    /\ Len(out.args[1]) = 3
    /\ out.ret.value.spent_txs = <<out.args[1][1]>>
    /\ ~out.args[1][2].fails
    /\ out.args[1][2].gas_spent <= out.args[2]
    /\ out.ret.value.discarded_txs = <<out.args[1][3]>>

\* C33: revert_to_epoch_root returns LastEpochNotFound when tip.epoch is None
\* and CommitNotFound when the VM does not hold the epoch commit, and then
\* leaves the tip and the state id file unchanged; otherwise it writes the
\* epoch commit to the state id file and sets tip.current and tip.base to the
\* epoch commit, leaving tip.epoch unchanged.  revert(h) returns
\* CommitNotFound with the tip unchanged when the VM does not hold h, and
\* otherwise changes tip.current only.  Neither changes the commits of the VM.
C33_RevertResults ==
    [][/\ out'.op = "rusk.revert_to_epoch_root"
          => /\ UNCHANGED <<vm, commits_to_delete>>
             /\ dir'.epoch_id = dir.epoch_id
             /\ IF tip.epoch = None
                  THEN /\ out'.ret = Err("LastEpochNotFound")
                       /\ UNCHANGED <<tip, dir>>
                ELSE IF tip.epoch.value \notin vm.commits
                  THEN /\ out'.ret = ErrArg("CommitNotFound", tip.epoch.value)
                       /\ UNCHANGED <<tip, dir>>
                ELSE /\ out'.ret = Ok([commit |-> tip.epoch.value])
                     /\ dir'.state_id = tip.epoch.value
                     /\ tip' = [current |-> tip.epoch.value,
                                base |-> tip.epoch.value,
                                epoch |-> tip.epoch]
       /\ out'.op = "rusk.revert"
          => /\ UNCHANGED <<vm, dir, commits_to_delete>>
             /\ IF out'.args[1] \notin vm.commits
                  THEN /\ out'.ret = ErrArg("CommitNotFound", out'.args[1])
                       /\ UNCHANGED tip
                  ELSE /\ out'.ret = Ok([commit |-> out'.args[1]])
                       /\ tip' = [current |-> out'.args[1], base |-> tip.base,
                                  epoch |-> tip.epoch]
      ]_vars

\* C33's case: revert_to_epoch_root succeeded on a tip that was past the
\* epoch commit: the state id file, tip.current and tip.base name the epoch
\* commit, which is not the last commit the VM created.
C33_Witness ==
    /\ out.op = "rusk.revert_to_epoch_root"
    /\ out.ret.tag = "Ok"
    /\ tip.epoch = Some(out.ret.value.commit)
    /\ tip.current = out.ret.value.commit
    /\ tip.base = out.ret.value.commit
    /\ dir.state_id = out.ret.value.commit
    /\ out.ret.value.commit < vm.created

\* C34: after a successful accept_transactions or finalize_transactions at
\* block_height h that produced the commit c, tip.current is c; tip.epoch is
\* c if h is a multiple of EPOCH and is unchanged otherwise; tip.base is
\* unchanged by accept_transactions and is c after finalize_transactions.
C34_TipAfterCommit ==
    [][out'.op \in {"rusk.accept_transactions", "rusk.finalize_transactions"}
       /\ out'.ret.tag = "Ok"
       => /\ vm'.created = vm.created + 1
          /\ tip'.current = vm'.created
          /\ tip'.epoch = IF out'.args[1] % EPOCH = 0 THEN Some(vm'.created)
                          ELSE tip.epoch
          /\ tip'.base = IF out'.op = "rusk.accept_transactions" THEN tip.base
                         ELSE vm'.created
      ]_vars

\* C34's case: accept_transactions succeeded at a height that is not a
\* multiple of EPOCH, on a tip with an epoch commit and a base that is
\* neither the epoch commit nor the genesis commit: the new commit is the
\* current one, the epoch commit and the base are older commits.
C34_Witness ==
    /\ out.op = "rusk.accept_transactions"
    /\ out.ret.tag = "Ok"
    /\ out.args[1] % EPOCH # 0
    /\ tip.current = vm.created
    /\ tip.epoch # None
    /\ tip.epoch # Some(tip.current)
    /\ tip.base # GenesisCommit
    /\ tip.base # tip.current
    /\ tip.epoch # Some(tip.base)

\* The entry of cert_list at position i (iteration i - 1) is present.
C35_Present(cert_list, i) == cert_list[i] # None

\* The entry at position i is of another generator than the iteration's.
C35_OtherGenerator(cert_list, i) ==
    /\ C35_Present(cert_list, i)
    /\ cert_list[i].value.pk # GetGenerator(i - 1)

\* The certificate of the entry at position i fails verification.
C35_CertFails(cert_list, height, i) ==
    /\ C35_Present(cert_list, i)
    /\ VerifyBlockCert(EmptyHash, height, cert_list[i].value.cert, i - 1,
                       TRUE).tag = "Err"

\* The entry at position i is present and both quorum results of its
\* certificate report a quorum.
C35_EntryAttested(cert_list, height, i) ==
    /\ C35_Present(cert_list, i)
    /\ LET quorums == VerifyBlockCert(EmptyHash, height,
                                      cert_list[i].value.cert, i - 1, TRUE)
       IN /\ quorums.tag = "Ok"
          /\ QuorumReached(quorums.value[1])
          /\ QuorumReached(quorums.value[2])

\* C35: verify_failed_iterations fails with an error when a present entry of
\* the failed-iterations certificate list has another generator key than the
\* expected generator of its iteration or a certificate that fails
\* verification; otherwise it returns attested, which is true exactly when
\* every entry is present with both its validation and its ratification
\* quorum result reporting a quorum (true for the empty list), so that a
\* missing entry gives false without an error.
C35_FailedIterationsAttested ==
    out.op = "validator.verify_failed_iterations"
    => LET cert_list == out.args[1].failed_iterations
           height == out.args[1].height
           entries == 1..Len(cert_list)
       IN IF \E i \in entries : \/ C35_OtherGenerator(cert_list, i)
                                \/ C35_CertFails(cert_list, height, i)
            THEN out.ret.tag = "Err"
            ELSE /\ out.ret.tag = "Ok"
                 /\ out.ret.value.attested
                    = (\A i \in entries : C35_EntryAttested(cert_list, height, i))
                 /\ (\E i \in entries : ~C35_Present(cert_list, i))
                    => out.ret.value.attested = FALSE
                 /\ cert_list = <<>> => out.ret.value.attested = TRUE

\* C35's case: the entry of iteration 0 is missing and the entry of
\* iteration 1 is a verified certificate of the expected generator: the check
\* returns attested = false without an error.
C35_Witness ==
    /\ out.op = "validator.verify_failed_iterations"
    /\ Len(out.args[1].failed_iterations) = 2
    /\ ~C35_Present(out.args[1].failed_iterations, 1)
    /\ C35_EntryAttested(out.args[1].failed_iterations, out.args[1].height, 2)
    /\ out.ret = Ok([attested |-> FALSE])

====
